---- MODULE Spec2Model ----
(***************************************************************************)
(* Scroll-driven particle animation (three.js): the host-side state        *)
(* machine of the four variants of the page script                         *)
(*   main      src/main.js                                                  *)
(*   part_000  src/unnamed/part_000                                         *)
(*   part_001  src/unnamed/part_001                                         *)
(*   part_002  src/unnamed/part_002                                         *)
(* Events: the GLTF load callback (initParticles), the window scroll       *)
(* listener and the animation frame callback.                               *)
(*                                                                          *)
(* Number representation.  The script computes with real numbers; the     *)
(* model computes the same expressions exactly, as integer numerators     *)
(* over fixed denominators:                                                *)
(*   progress (percent)          numerator over PixelsPerPercent           *)
(*   uProgress                   numerator over 100 * PixelsPerPercent     *)
(*   blendProgress               numerator over BlendDen                   *)
(*   smoothBlendProgress,                                                  *)
(*   uBlendTransition            numerator over BlendDen^3                 *)
(*   rotation.y (degrees)        numerator over YDen(variant)              *)
(*   rotation.x (degrees)        numerator over XDen                       *)
(*   uTime                       multiples of 0.01                         *)
(* Angles are kept in degrees: the script multiplies every angle by the   *)
(* same factor Math.PI / 180.                                              *)
(***************************************************************************)
EXTENDS Integers, FiniteSets, Sequences, TLC

\* ------------------------------------------------------------------ bounds
\* The page is (100 * PixelsPerPercent) pixels taller than the viewport, so
\* that one pixel of scroll is 1 / PixelsPerPercent percent of progress.
PixelsPerPercent == 2
\* Pixels by which window.scrollY may leave [0, ScrollRange] (overscroll).
MaxOverscroll == 3
\* uTime is followed up to MaxTime hundredths.
MaxTime == 1
\* Number of keydown events followed.
MaxKeyPresses == 1
\* Number of keydown events followed where key sequences are examined.
MaxResetPresses == 2

\* ------------------------------------------------------------- arithmetic
Max(a, b) == IF a >= b THEN a ELSE b
Min(a, b) == IF a <= b THEN a ELSE b
Cube(a) == a * a * a

\* --------------------------------------------------------------- variants
Variants == {"main", "part_000", "part_001", "part_002"}

\* main.js and part_002 carry the blend/depth-write switch in the scroll
\* listener; part_000 and part_001 do not.
HasBlendSwitch(v) == v \in {"main", "part_002"}

\* document.documentElement.scrollHeight - window.innerHeight
ScrollRange == 100 * PixelsPerPercent
\* values of window.scrollY
ScrollPositions == (0 - MaxOverscroll) .. (ScrollRange + MaxOverscroll)

\* const particlesCount = 2754
particlesCount == 2754
\* xShape.array.length / 3 of the loaded model: the values tried when the
\* dataset construction is examined on its own (SpecData)
TargetVertexCounts == {0, 1, 1999, 2000, 2001, 2753, 2754, 2755, 3000}
\* xShape.array.length / 3 of the model file while the event handlers are
\* examined (Spec): fewer vertices than origin particles
ModelVertexCounts == {2000}

VARIABLES
    variant,          \* which of the four scripts runs
    particles,        \* FALSE: particles === null; TRUE: THREE.Points exists
    xShape,           \* vertex count of the loaded position attribute, -1 before
    scrollY,          \* the script's global scrollY
    uProgress,        \* particles.material.uniforms.uProgress.value
    uBlendTransition, \* particles.material.uniforms.uBlendTransition.value
    uTime,            \* particles.material.uniforms.uTime.value
    blending,         \* particles.material.blending ("none" before creation)
    depthWrite,       \* particles.material.depthWrite
    rotation,         \* particles.rotation, [x, y, z]
    attributes,       \* geometry attribute name -> item count (-1: absent)
    reads,            \* source array -> highest index read by initParticles
    handledSinceLoad, \* history: a scroll event ran with particles non-null
    vertex,           \* the vertex given to the vertex shader (attributes, noise)
    shaded,           \* inputs and outputs of the latest vertex shader run
    config,           \* the script's global let variables (main.js)
    uniforms,         \* wave and darkness uniforms of particles.material
    grid,             \* global arrays positions, particleSizes, gridColors
    dataset,          \* attribute arrays of particles.geometry
    timer,            \* the DOMContentLoaded / setTimeout(100) callback
    keyPresses,       \* history: number of keydown events handled
    thrown,           \* history: a handler dereferenced particles while null
    debugDisplay      \* scroll / rotation line of .scrollProgressPrecise

\* the variables of the vertex shader stage
shaderVars == <<vertex, shaded>>

\* the variables of the keyboard controls and the startup timer
controlVars == <<config, uniforms, grid, dataset, timer, keyPresses, thrown>>

vars == <<variant, particles, xShape, scrollY, uProgress, uBlendTransition,
          uTime, blending, depthWrite, rotation, attributes, reads,
          handledSinceLoad, vertex, shaded, config, uniforms, grid, dataset,
          timer, keyPresses, thrown, debugDisplay>>

\* ------------------------------------------------- scroll listener: progress
\* progress = (scrollY / (scrollHeight - innerHeight)) * 100, as a numerator
\* over PixelsPerPercent (the division is exact: ScrollRange is a multiple
\* of 100).
Progress(sy) == (sy * 100 * PixelsPerPercent) \div ScrollRange

\* a threshold of pct percent in the unit of Progress
Pct(pct) == pct * PixelsPerPercent

\* particles.material.uniforms.uProgress.value = progress / 100: the value
\* stored, for the current value cur of the uniform (which the assignment
\* does not read)
UProgressValue(cur, progress) == progress

\* ------------------------------------------- scroll listener: blend switch
BlendDen == 30 * PixelsPerPercent

\* blendProgress = Math.max(0, Math.min(1, (progress - 35) / 30))
BlendProgress(p) == Max(0, Min(BlendDen, p - Pct(35)))

\* variant of SmoothBlendProgress without the - 2 * blendProgress term
SmoothBlendProgress_NoCubic(b) == b * b * (3 * BlendDen)

\* smoothBlendProgress = blendProgress * blendProgress * (3 - 2 * blendProgress)
SmoothBlendProgress(b) == b * b * (3 * BlendDen - 2 * b)

\* b > h/100 for a blendProgress numerator b
BlendAbove(b, h) == b * 100 > h * BlendDen

\* variant of NextBlending with >= 0.6 in place of > 0.6
NextBlending_Inclusive(cur, b) ==
    IF b * 100 >= 60 * BlendDen /\ cur = "Additive" THEN "Normal"
    ELSE IF ~BlendAbove(b, 40) /\ cur = "Normal" THEN "Additive"
    ELSE cur

\* variant of NextBlending with the single threshold 0.5 (no hysteresis)
NextBlending_Midpoint(cur, b) ==
    IF BlendAbove(b, 50) THEN "Normal" ELSE "Additive"

\* variant of NextBlending that never returns to Additive
NextBlending_Sticky(cur, b) ==
    IF BlendAbove(b, 60) THEN "Normal" ELSE cur

\* material.blending after the first if / else if of the switch
NextBlending(cur, b) ==
    IF BlendAbove(b, 60) /\ cur = "Additive" THEN "Normal"
    ELSE IF ~BlendAbove(b, 40) /\ cur = "Normal" THEN "Additive"
    ELSE cur

\* variant of NextDepthWrite with the band (0.4, 0.5] in place of (0.45, 0.55]
NextDepthWrite_ShiftedBand(cur, b) ==
    IF BlendAbove(b, 50) /\ cur = FALSE THEN TRUE
    ELSE IF ~BlendAbove(b, 40) /\ cur = TRUE THEN FALSE
    ELSE cur

\* variant of NextDepthWrite with the thresholds of the blending switch
NextDepthWrite_BlendThresholds(cur, b) ==
    IF BlendAbove(b, 60) /\ cur = FALSE THEN TRUE
    ELSE IF ~BlendAbove(b, 40) /\ cur = TRUE THEN FALSE
    ELSE cur

\* variant of NextDepthWrite that never switches depthWrite off again
NextDepthWrite_Latched(cur, b) ==
    IF BlendAbove(b, 55) THEN TRUE ELSE cur

\* material.depthWrite after the second if / else if of the switch
NextDepthWrite(cur, b) ==
    IF BlendAbove(b, 55) /\ cur = FALSE THEN TRUE
    ELSE IF ~BlendAbove(b, 45) /\ cur = TRUE THEN FALSE
    ELSE cur

\* ---------------------------------------------- scroll listener: rotation
\* if (progress >= 60) in main.js / part_002, if (progress >= 20) in
\* part_000 / part_001
RotationStart(v) == IF v \in {"main", "part_002"} THEN 60 ELSE 20

\* phase 2 starts at progress 80 in every variant
Phase2Start == 80

\* divisor of phase1Progress: (progress - 60) / 20 or (progress - 20) / 60
Phase1Span(v) == Phase2Start - RotationStart(v)
\* divisor of phase2Progress and xNormalizedProgress: (progress - 80) / 20
Phase2Span == 20

P1Den(v) == Phase1Span(v) * PixelsPerPercent
P2Den == Phase2Span * PixelsPerPercent

\* denominators of the eased factors
YDen(v) == 2 * Cube(P1Den(v))
XDen == Cube(P2Den)

\* yEasedProgress of phase 1 for phase1Progress = m / P1Den(v):
\* 0.5 * (3 * t^2 - 2 * t^3), numerator over YDen(v)
YPhase1(v, m) == 3 * m * m * P1Den(v) - 2 * Cube(m)

\* variant of YPhase2 that starts phase 2 from 0 instead of 0.5
YPhase2_FromZero(v, k) == (k * k) * (Cube(P1Den(v)) \div (P2Den * P2Den))

\* yEasedProgress of phase 2 for phase2Progress = k / P2Den:
\* 0.5 + 0.5 * u^2, numerator over YDen(v)
YPhase2(v, k) == (P2Den * P2Den + k * k) * (Cube(P1Den(v)) \div (P2Den * P2Den))

\* yEasedProgress: the if (progress < 80) ... else ... of the listener
YEasedProgress(v, p) ==
    IF p < Pct(Phase2Start)
    THEN YPhase1(v, p - Pct(RotationStart(v)))
    ELSE YPhase2(v, p - Pct(Phase2Start))

\* variant of EasedProgress without the clamp to [0, 1]
EasedProgress_Unclamped(v, p) == YEasedProgress(v, p)

\* easedProgress = Math.min(1.0, Math.max(0, yEasedProgress))
EasedProgress(v, p) == Min(YDen(v), Max(0, YEasedProgress(v, p)))

\* xRotationProgress: 0, or min(1, max(0, ((progress - 80) / 20)^3)) from 80
XRotationProgress(p) ==
    IF p >= Pct(Phase2Start)
    THEN Min(XDen, Max(0, Cube(p - Pct(Phase2Start))))
    ELSE 0

\* maxRotationX = -5 degrees, maxRotationY = 20 degrees, maxRotationZ = 0
maxRotationX == 0 - 5
maxRotationY == 20

ZeroRotation == [x |-> 0, y |-> 0, z |-> 0]

\* variant of ResetRotation that leaves the rotation where it was
ResetRotation_Keep(old) == old

\* the else branch: reset rotation when below the start threshold
ResetRotation(old) == ZeroRotation

\* the if branch: apply gradual rotation
ActiveRotation(v, p) ==
    [x |-> maxRotationX * XRotationProgress(p),
     y |-> maxRotationY * EasedProgress(v, p),
     z |-> 0]

\* particles.rotation after the listener's if (progress >= start) ... else
ScrollRotation(v, p, old) ==
    IF p >= Pct(RotationStart(v)) THEN ActiveRotation(v, p)
    ELSE ResetRotation(old)

\* ------------------------------------------------------------ initParticles
\* variant of AdjustedCount that keeps every origin particle
AdjustedCount_NoTruncation(pc, tvc) == pc

\* const adjustedCount = Math.min(particlesCount, targetVertexCount)
AdjustedCount(pc, tvc) == Min(pc, tvc)

AllAttributes ==
    {"position", "aPositionTarget", "aSize", "aTargetSize", "aColor", "aGridColor"}

\* the geometry.setAttribute calls of the variant
AttributeNames(v) ==
    IF v = "main" THEN AllAttributes
    ELSE {"position", "aPositionTarget", "aSize", "aColor"}

\* second argument of new THREE.BufferAttribute(array, itemSize)
ItemSize(a) == IF a \in {"aSize", "aTargetSize"} THEN 1 ELSE 3

\* length of the Float32Array behind attribute a:
\* new Float32Array(adjustedCount * 3) or new Float32Array(adjustedCount)
AttributeArrayLength(a, adjustedCount) == adjustedCount * ItemSize(a)

\* BufferAttribute.count = array.length / itemSize; -1 for an attribute the
\* variant does not create
BuildAttributes(v, adjustedCount) ==
    [a \in AllAttributes |->
        IF a \in AttributeNames(v)
        THEN AttributeArrayLength(a, adjustedCount) \div ItemSize(a)
        ELSE 0 - 1]

\* the arrays initParticles reads: the three global origin arrays and the
\* model's xShape.array
SourceArrays == {"positions", "particleSizes", "gridColors", "xShape"}

\* floats per particle in a source array
SourceItemSize(src) == IF src = "particleSizes" THEN 1 ELSE 3

NoRead == 0 - 1
NoReads == [src \in SourceArrays |-> NoRead]

\* highest index of src read by iteration i of the copy loop:
\* positions[i3 .. i3 + 2] and xShape.array[i3 .. i3 + 2] in every variant,
\* particleSizes[i] in main.js
CopyLoopBody(v, src, i) ==
    IF src \in {"positions", "xShape"} THEN i * 3 + 2
    ELSE IF src = "particleSizes" /\ v = "main" THEN i
    ELSE NoRead

\* highest index of src read by iteration i of the grid-colour loop of
\* main.js: gridColors[i]
GridColorLoopBody(src, i) == IF src = "gridColors" THEN i ELSE NoRead

\* for (let i = lo; i < hi; i++) of the copy loop: the highest index of src
\* it reads.  Every index expression of the body is affine in i, so the
\* extreme indices are those of the first and of the last iteration.
CopyLoop(v, src, lo, hi) ==
    IF hi <= lo THEN NoRead
    ELSE Max(CopyLoopBody(v, src, lo), CopyLoopBody(v, src, hi - 1))

\* for (let i = lo; i < hi; i++) of the grid-colour loop, likewise
GridColorLoop(src, lo, hi) ==
    IF hi <= lo THEN NoRead
    ELSE Max(GridColorLoopBody(src, lo), GridColorLoopBody(src, hi - 1))

\* all reads of initParticles: the copy loop over i < adjustedCount and, in
\* main.js, the grid-colour loop over i < adjustedCount * 3
InitParticlesReads(v, adjustedCount) ==
    [src \in SourceArrays |->
        IF src = "gridColors"
        THEN (IF v = "main" THEN GridColorLoop(src, 0, adjustedCount * 3)
              ELSE NoRead)
        ELSE CopyLoop(v, src, 0, adjustedCount)]

\* variant of InitialMaterial with the material of part_000 in every variant
InitialMaterial_Normal(v) == [blending |-> "Normal", depthWrite |-> TRUE]

\* depthWrite / blending given to new THREE.ShaderMaterial
InitialMaterial(v) ==
    IF v = "part_000"
    THEN [blending |-> "Normal", depthWrite |-> TRUE]
    ELSE [blending |-> "Additive", depthWrite |-> FALSE]

\* ------------------------------------------------ vertex shader (main.js)
\* Number representation of the shader stage.  The shader is evaluated at
\* uProgress values that are whole tenths, on raw noise samples that are
\* halves, and on integer vectors, and every value is an exact numerator:
\*   uProgress                       tenths (ProgressTenths)
\*   simplexNoise3d samples          numerator over RawNoiseUnit
\*   mix(noiseOrigin, noiseTarget)   numerator over NoiseMixUnit
\*   noise after the remap           numerator over NoiseDen
\*   delay, end                      numerator over AssemblyUnit
\*   waveStrength, colorBlend        numerator over WaveDen
\*   vColor                          numerators over WaveDen
\*   assemblyProgress, finalSize     numerator over AssemblyDen
\* Angles, sin / cos values, the wave terms, matrix entries, staticPosition
\* and finalPosition are fixed-point numbers: numerators over PosDen, every
\* product rounded to the nearest multiple of 1 / PosDen.  The uniforms
\* uWaveOffset* are hundredths, uWaveRotation* hundredths of a degree (the
\* script converts degrees to radians with Math.PI / 180), uTime hundredths
\* of a second.

\* denominator of the fixed-point numbers
PosDen == 10000
\* n / d rounded to the nearest integer (d > 0)
RoundDiv(n, d) == (n + d \div 2) \div d
\* Math.PI and Math.PI / 2 over PosDen
PiFixed == 31416
HalfPiFixed == 15708

\* an angle brought into [-pi, pi) by whole turns
WrapAngle(a) == ((a + PiFixed) % (2 * PiFixed)) - PiFixed

\* sin and cos of an angle a in [-pi/2, pi/2] by their power series,
\* x - x^3/3! + x^5/5! - x^7/7! + x^9/9! and
\* 1 - x^2/2! + x^4/4! - x^6/6! + x^8/8! - x^10/10!
SinSeries(a) ==
    LET x2 == RoundDiv(a * a, PosDen)
        t3 == RoundDiv(a * x2, 6 * PosDen)
        t5 == RoundDiv(t3 * x2, 20 * PosDen)
        t7 == RoundDiv(t5 * x2, 42 * PosDen)
        t9 == RoundDiv(t7 * x2, 72 * PosDen)
    IN  a - t3 + t5 - t7 + t9
CosSeries(a) ==
    LET x2 == RoundDiv(a * a, PosDen)
        t2 == RoundDiv(x2, 2)
        t4 == RoundDiv(t2 * x2, 12 * PosDen)
        t6 == RoundDiv(t4 * x2, 30 * PosDen)
        t8 == RoundDiv(t6 * x2, 56 * PosDen)
        t10 == RoundDiv(t8 * x2, 90 * PosDen)
    IN  PosDen - t2 + t4 - t6 + t8 - t10

\* GLSL sin(angle) and cos(angle), angle in radians over PosDen
Sin(angle) ==
    LET r == WrapAngle(angle)
    IN  IF r > HalfPiFixed THEN SinSeries(PiFixed - r)
        ELSE IF r < 0 - HalfPiFixed THEN SinSeries((0 - PiFixed) - r)
        ELSE SinSeries(r)
Cos(angle) ==
    LET r == WrapAngle(angle)
    IN  IF r > HalfPiFixed THEN 0 - CosSeries(PiFixed - r)
        ELSE IF r < 0 - HalfPiFixed THEN 0 - CosSeries((0 - PiFixed) - r)
        ELSE CosSeries(r)

\* degrees * (Math.PI / 180) for an angle in hundredths of a degree
Radians(hundredths) == RoundDiv(hundredths * PiFixed, 18000)

\* vec3 arithmetic
VAdd(a, b) == <<a[1] + b[1], a[2] + b[2], a[3] + b[3]>>
VScale(c, a) == <<c * a[1], c * a[2], c * a[3]>>
\* every component of a divided by d and rounded
VRound(a, d) == <<RoundDiv(a[1], d), RoundDiv(a[2], d), RoundDiv(a[3], d)>>

\* mat3 * vec3 for a mat3 given by its three columns
MatVec(m, v) ==
    VRound(VAdd(VAdd(VScale(v[1], m[1]), VScale(v[2], m[2])),
                VScale(v[3], m[3])),
           PosDen)
\* mat3 * mat3
MatMul(a, b) == <<MatVec(a, b[1]), MatVec(a, b[2]), MatVec(a, b[3])>>

\* mat3 rotateX(float angle): mat3(1, 0, 0,  0, c, -s,  0, s, c); the
\* constructor takes the columns in order
rotateX(angle) ==
    << <<PosDen, 0, 0>>, <<0, Cos(angle), 0 - Sin(angle)>>,
       <<0, Sin(angle), Cos(angle)>> >>
\* mat3 rotateY(float angle): mat3(c, 0, s,  0, 1, 0,  -s, 0, c)
rotateY(angle) ==
    << <<Cos(angle), 0, Sin(angle)>>, <<0, PosDen, 0>>,
       <<0 - Sin(angle), 0, Cos(angle)>> >>
\* mat3 rotateZ(float angle): mat3(c, -s, 0,  s, c, 0,  0, 0, 1)
rotateZ(angle) ==
    << <<Cos(angle), 0 - Sin(angle), 0>>, <<Sin(angle), Cos(angle), 0>>,
       <<0, 0, PosDen>> >>

\* mat3 rotMatrix = rotateZ(uWaveRotationZ) * rotateY(uWaveRotationY) *
\* rotateX(uWaveRotationX), for the uniforms in hundredths of a degree
RotMatrix(rot) ==
    MatMul(MatMul(rotateZ(Radians(rot[3])), rotateY(Radians(rot[2]))),
           rotateX(Radians(rot[1])))

\* GLSL mix(x, y, a) = x * (1 - a) + y * a for a = a / den; numerator over den
Mix(x, y, a, den) == x * (den - a) + y * a
\* mix on vec3
VMix(x, y, a, den) == VAdd(VScale(den - a, x), VScale(a, y))

\* variant of SmoothstepNum without the clamp of t to [0, 1]
SmoothstepNum_NoClamp(edge0, edge1, x) ==
    LET d == edge1 - edge0
        a == x - edge0
    IN  a * a * (3 * d - 2 * a)

\* GLSL smoothstep(edge0, edge1, x): t = clamp((x - edge0) / (edge1 - edge0),
\* 0, 1); t * t * (3 - 2 * t).  Numerator over (edge1 - edge0)^3.
SmoothstepNum(edge0, edge1, x) ==
    LET d == edge1 - edge0
        a == Max(0, Min(d, x - edge0))
    IN  a * a * (3 * d - 2 * a)

\* uProgress as a number of tenths (defined when it is a whole tenth)
OnTenth(p) == p % (10 * PixelsPerPercent) = 0
ProgressTenths(p) == p \div (10 * PixelsPerPercent)

\* a simplexNoise3d sample r stands for r / RawNoiseUnit, in [-1, 1]
RawNoiseUnit == 2
RawNoiseValues == (0 - RawNoiseUnit) .. RawNoiseUnit
NoiseMixUnit == RawNoiseUnit * 10

\* float noise = mix(noiseOrigin, noiseTarget, uProgress)
NoiseMix(noiseOrigin, noiseTarget, tenths) == Mix(noiseOrigin, noiseTarget, tenths, 10)

\* the remapped noise is kept as a numerator over NoiseDen
NoiseDen == 32

\* variant of RemappedNoise that clamps the mixed noise to [0, 1] instead of
\* remapping [-1, 1] to [0, 1]
RemappedNoise_ClampOnly(m) ==
    (Max(0, Min(NoiseMixUnit, m)) * NoiseDen) \div NoiseMixUnit

\* noise = smoothstep(-1.0, 1.0, noise), numerator over NoiseDen
RemappedNoise(m) ==
    (SmoothstepNum(0 - NoiseMixUnit, NoiseMixUnit, m) * NoiseDen)
        \div Cube(2 * NoiseMixUnit)

\* the remapped noise of the mixed noise m is a whole multiple of 1 / NoiseDen
NoiseOnGrid(m) ==
    (SmoothstepNum(0 - NoiseMixUnit, NoiseMixUnit, m) * NoiseDen)
        % Cube(2 * NoiseMixUnit) = 0

\* delay, end and uProgress are compared as numerators over AssemblyUnit
AssemblyUnit == 400
\* float duration = 0.4
duration == (4 * AssemblyUnit) \div 10

\* variant of Delay without the factor 1.2
Delay_NoStretch(noise) == ((AssemblyUnit - duration) * noise) \div NoiseDen

\* variant of Delay that starts every window 0.1 early
Delay_Early(noise) ==
    (((AssemblyUnit - duration) * noise * 12) \div (NoiseDen * 10))
        - (AssemblyUnit \div 10)

\* float delay = (1.0 - duration) * noise * 1.2
Delay(noise) == ((AssemblyUnit - duration) * noise * 12) \div (NoiseDen * 10)

\* float end = delay + duration
End(noise) == Delay(noise) + duration

\* denominator of assemblyProgress: (end - delay)^3
AssemblyDen == Cube(duration)

\* float assemblyProgress = smoothstep(delay, end, uProgress)
AssemblyProgress(noise, tenths) ==
    SmoothstepNum(Delay(noise), End(noise), tenths * (AssemblyUnit \div 10))

\* denominator of smoothstep(0.0, 0.3, uProgress) for uProgress in tenths
WaveDen == Cube(3)

\* float colorBlend = smoothstep(0.0, 0.3, uProgress)
ColorBlend(tenths) == SmoothstepNum(0, 3, tenths)

\* float waveStrength = 1.0 - smoothstep(0.0, 0.3, uProgress)
WaveStrength(tenths) == WaveDen - SmoothstepNum(0, 3, tenths)

\* the wave terms of a vertex at waveBasePos = position (whole numbers) and
\* uTime = time hundredths:
\*   waveX = sin(x * 2.0 + uTime * 0.5) * 0.08
\*             + sin(z * 1.5 + uTime * 0.7) * 0.06
\*   waveY = cos(z * 3.0 + uTime * 0.7) * 0.04
\*   waveZ = sin(x * 2.5 + z * 2.0 + uTime * 0.6) * 0.04
\*             + cos(x * 1.7 + uTime * 0.4) * 0.05
\* uTime * 0.5 is time * 5 thousandths
WaveDisplacement(position, time) ==
    LET x == position[1]
        z == position[3]
        milli == PosDen \div 1000
        tenth == PosDen \div 10
        waveX1 == RoundDiv(Sin(x * 20 * tenth + time * 5 * milli) * 8, 100)
        waveX2 == RoundDiv(Sin(z * 15 * tenth + time * 7 * milli) * 6, 100)
        waveY == RoundDiv(Cos(z * 30 * tenth + time * 7 * milli) * 4, 100)
        waveZ1 == RoundDiv(Sin(x * 25 * tenth + z * 20 * tenth
                               + time * 6 * milli) * 4, 100)
        waveZ2 == RoundDiv(Cos(x * 17 * tenth + time * 4 * milli) * 5, 100)
    IN  <<waveX1 + waveX2, waveY, waveZ1 + waveZ2>>

\* staticPosition: waveBasePos + waveDisplacement * waveStrength, then the
\* offset is added, then rotMatrix = rotateZ * rotateY * rotateX is applied.
\* Numerators over PosDen; offset in hundredths, rot in hundredths of a
\* degree.
StaticPosition(position, waveDisplacement, waveStrength, offset, rot) ==
    LET displaced == VAdd(VScale(PosDen, position),
                          VRound(VScale(waveStrength, waveDisplacement),
                                 WaveDen))
        placed == VAdd(displaced, VScale(PosDen \div 100, offset))
    IN  MatVec(RotMatrix(rot), placed)

\* x * (w / AssemblyDen) for a fixed-point x and a weight w in
\* 0 .. AssemblyDen, rounded; the product is taken in two parts, w =
\* 1000 * (w \div 1000) + w % 1000
Weighted(x, w) ==
    RoundDiv(x * (w \div 1000) + RoundDiv(x * (w % 1000), 1000),
             AssemblyDen \div 1000)
VWeighted(a, w) == <<Weighted(a[1], w), Weighted(a[2], w), Weighted(a[3], w)>>

\* variant of FinalPosition that adds the weighted target to the static
\* position instead of blending the two
FinalPosition_Additive(staticPosition, targetPosition, assemblyProgress) ==
    VAdd(staticPosition,
         VWeighted(VScale(PosDen, targetPosition), assemblyProgress))

\* vec3 finalPosition = mix(staticPosition, targetPosition, assemblyProgress),
\* mix(x, y, a) = x * (1 - a) + y * a; numerators over PosDen
FinalPosition(staticPosition, targetPosition, assemblyProgress) ==
    VAdd(VWeighted(staticPosition, AssemblyDen - assemblyProgress),
         VWeighted(VScale(PosDen, targetPosition), assemblyProgress))

\* float finalSize = mix(aSize, aTargetSize, assemblyProgress)
FinalSize(aSize, aTargetSize, assemblyProgress) ==
    Mix(aSize, aTargetSize, assemblyProgress, AssemblyDen)

\* vColor = mix(aGridColor, aColor, colorBlend)
VColor(aGridColor, aColor, colorBlend) == VMix(aGridColor, aColor, colorBlend, WaveDen)

\* vertices examined: attributes of one particle and the two noise samples
\* simplexNoise3d(position * 0.2), simplexNoise3d(aPositionTarget * 0.2)
VertexInputs ==
    {[position |-> <<x, 0, 0>>,
      aPositionTarget |-> <<x + 1, 1, 0>>,
      aSize |-> 1,
      aTargetSize |-> 2,
      aColor |-> <<1, 1, 1>>,
      aGridColor |-> <<0, 0, 0>>,
      noiseOrigin |-> nO,
      noiseTarget |-> nT] :
        x \in (0 - 1) .. 2, nO \in RawNoiseValues, nT \in RawNoiseValues}

Zero3 == <<0, 0, 0>>

\* no vertex is examined
NoVertex ==
    [position |-> Zero3, aPositionTarget |-> Zero3, aSize |-> 0,
     aTargetSize |-> 0, aColor |-> Zero3, aGridColor |-> Zero3,
     noiseOrigin |-> 0, noiseTarget |-> 0]

\* the vertex shader has not run
NoShaded ==
    [valid |-> FALSE, tenths |-> 0, uTime |-> 0, waveDisplacement |-> Zero3,
     offset |-> Zero3, rot |-> Zero3, noise |-> 0, delay |-> 0, end |-> 0,
     waveStrength |-> 0, staticPosition |-> Zero3, assemblyProgress |-> 0,
     finalPosition |-> Zero3, finalSize |-> 0, colorBlend |-> 0,
     vColor |-> Zero3]

\* void main() of the vertex shader for vertex v, with uProgress = tenths /
\* 10, uTime = time hundredths and the wave uniforms u of the material
ShaderMain(v, tenths, time, u) ==
    LET noise == RemappedNoise(NoiseMix(v.noiseOrigin, v.noiseTarget, tenths))
        waveStrength == WaveStrength(tenths)
        waveDisplacement == WaveDisplacement(v.position, time)
        offset == <<u.uWaveOffsetX, u.uWaveOffsetY, u.uWaveOffsetZ>>
        rot == <<u.uWaveRotationX, u.uWaveRotationY, u.uWaveRotationZ>>
        staticPosition == StaticPosition(v.position, waveDisplacement,
                                         waveStrength, offset, rot)
        assemblyProgress == AssemblyProgress(noise, tenths)
        colorBlend == ColorBlend(tenths)
    IN  [valid |-> TRUE, tenths |-> tenths, uTime |-> time,
         waveDisplacement |-> waveDisplacement, offset |-> offset, rot |-> rot,
         noise |-> noise, delay |-> Delay(noise), end |-> End(noise),
         waveStrength |-> waveStrength, staticPosition |-> staticPosition,
         assemblyProgress |-> assemblyProgress,
         finalPosition |-> FinalPosition(staticPosition, v.aPositionTarget,
                                         assemblyProgress),
         finalSize |-> FinalSize(v.aSize, v.aTargetSize, assemblyProgress),
         colorBlend |-> colorBlend,
         vColor |-> VColor(v.aGridColor, v.aColor, colorBlend)]

\* ------------------------------------------ controls and dataset (main.js)
\* Offsets, darkness factors and density factors are in hundredths; rotations
\* are in hundredths of a degree (x stands for x / 100 * (Math.PI / 180)).

RECURSIVE GCD(_, _)
GCD(a, b) == IF b = 0 THEN a ELSE GCD(b, a % b)

\* the fraction n / d (d > 0) in lowest terms
Rat(n, d) ==
    LET g == GCD(IF n < 0 THEN 0 - n ELSE n, d)
    IN  <<n \div g, d \div g>>

RECURSIVE CeilSqrtFrom(_, _)
CeilSqrtFrom(n, g) == IF g * g >= n THEN g ELSE CeilSqrtFrom(n, g + 1)

\* Math.ceil(Math.sqrt(n))
GridSize(n) == CeilSqrtFrom(n, 0)

\* main.js and part_002 have the keyboard controls and the startup timer
HasControls(v) == v \in {"main", "part_002"}

\* the let globals at the top of main.js and of part_002 (which has no
\* darkness factors and no debugMode: they stay 0 / FALSE there); part_000
\* and part_001 have none of them
InitialConfig(v) ==
    IF v = "main"
    THEN [waveOffsetX |-> 0 - 35, waveOffsetY |-> 5, waveOffsetZ |-> 0 - 165,
          waveRotationX |-> 0 - 573, waveRotationY |-> 573,
          waveRotationZ |-> 0,
          distanceDarknessFactor |-> 80, heightDarknessFactor |-> 80,
          distantHeightBoost |-> 120,
          debugMode |-> FALSE,
          waveWidthFactor |-> 150, waveDepthFactor |-> 600,
          waveZOffset |-> 180,
          displayOffsetX |-> 10, displayOffsetY |-> 20, displayOffsetZ |-> 0,
          displayRotationX |-> 0, displayRotationY |-> 0,
          displayRotationZ |-> 0,
          cameraHelperVisible |-> FALSE]
    ELSE [waveOffsetX |-> 0 - 45, waveOffsetY |-> 0 - 15,
          waveOffsetZ |-> 0 - 220,
          waveRotationX |-> 0 - 573, waveRotationY |-> 573,
          waveRotationZ |-> 0,
          distanceDarknessFactor |-> 0, heightDarknessFactor |-> 0,
          distantHeightBoost |-> 0,
          debugMode |-> FALSE,
          waveWidthFactor |-> 150, waveDepthFactor |-> 600,
          waveZOffset |-> 180,
          displayOffsetX |-> 10, displayOffsetY |-> 20, displayOffsetZ |-> 0,
          displayRotationX |-> 0, displayRotationY |-> 0,
          displayRotationZ |-> 0,
          cameraHelperVisible |-> FALSE]

\* the wave and darkness uniforms given to new THREE.ShaderMaterial
MaterialUniforms(c) ==
    [uWaveOffsetX |-> c.waveOffsetX, uWaveOffsetY |-> c.waveOffsetY,
     uWaveOffsetZ |-> c.waveOffsetZ,
     uWaveRotationX |-> c.waveRotationX, uWaveRotationY |-> c.waveRotationY,
     uWaveRotationZ |-> c.waveRotationZ,
     uDistanceDarknessFactor |-> c.distanceDarknessFactor,
     uHeightDarknessFactor |-> c.heightDarknessFactor,
     uDistantHeightBoost |-> c.distantHeightBoost]

\* no material yet (particles === null)
NoUniforms ==
    [uWaveOffsetX |-> 0, uWaveOffsetY |-> 0, uWaveOffsetZ |-> 0,
     uWaveRotationX |-> 0, uWaveRotationY |-> 0, uWaveRotationZ |-> 0,
     uDistanceDarknessFactor |-> 0, uHeightDarknessFactor |-> 0,
     uDistantHeightBoost |-> 0]

\* indices of the particles whose per-particle values are followed: particle
\* 0 is at row 0, column 0 of every grid; particle 46 is at row 0, column 46
\* of the 53-wide initial grid and at row 1, column 1 of a 45-wide grid
SampleParticles == {0, 46}

\* values of one Math.random() draw, in [0, 1): two distinct values; the
\* draws of one loop are taken equal for the sampled particles
RandomValues == {0, 1}

\* x = (col / gridSize - 0.5) * waveWidthFactor, exact
GridX(i, gridSize, width) ==
    Rat((2 * (i % gridSize) - gridSize) * width, 2 * gridSize * 100)

\* z = (row / gridSize - 0.5) * waveDepthFactor, exact
GridZ(i, gridSize, depth) ==
    Rat((2 * (i \div gridSize) - gridSize) * depth, 2 * gridSize * 100)

\* normalizedZ = Math.min(1, Math.max(0, (z - minZ) / (maxZ - minZ))) with
\* minZ = -3, maxZ = 3
NormalizedZ(z) ==
    LET n == z[1] + 3 * z[2]
        d == 6 * z[2]
    IN  IF n <= 0 THEN <<0, 1>> ELSE IF n >= d THEN <<1, 1>> ELSE Rat(n, d)

\* the stored position (rotatedX, y - 0.2, rotatedZ) is a one-to-one function
\* of x, z and waveZOffset, by which it is represented; rotated tells
\* whether the loop turns (x, z + zOffset) before storing it
GridPosition(i, gridSize, c) ==
    [x |-> GridX(i, gridSize, c.waveWidthFactor),
     z |-> GridZ(i, gridSize, c.waveDepthFactor),
     zOffset |-> c.waveZOffset,
     rotated |-> TRUE]

\* the grid of part_000 and part_001: x = (col / gridSize - 0.5) * 2,
\* z = (row / gridSize - 0.5) * 10, stored unrotated as (x, y - 0.2, z + 2.7)
PlainGridPosition(i, gridSize) ==
    [x |-> GridX(i, gridSize, 200),
     z |-> GridZ(i, gridSize, 1000),
     zOffset |-> 270,
     rotated |-> FALSE]

\* the stored grid colour is a one-to-one function of normalizedZ
GridColor(i, gridSize, c) ==
    [normalizedZ |-> NormalizedZ(GridZ(i, gridSize, c.waveDepthFactor))]

\* 0.7 + enhancedZ * 0.6 + Math.random() * 0.1
GridParticleSize(i, gridSize, c, random) ==
    [normalizedZ |-> NormalizedZ(GridZ(i, gridSize, c.waveDepthFactor)),
     random |-> random]

\* the top-level loop filling positions, particleSizes and (main.js)
\* gridColors; the other variants have particleSizes[i] = 1 and no
\* gridColors, part_000 and part_001 a grid of fixed width and depth
InitialGrid(v, random) ==
    LET gridSize == GridSize(particlesCount)
        c == InitialConfig(v)
    IN  [positions |->
            [i \in SampleParticles |->
                IF HasControls(v) THEN GridPosition(i, gridSize, c)
                                  ELSE PlainGridPosition(i, gridSize)],
         particleSizes |->
            [i \in SampleParticles |->
                IF v = "main" THEN GridParticleSize(i, gridSize, c, random)
                              ELSE [constant |-> 1]],
         gridColors |->
            IF v = "main"
            THEN [i \in SampleParticles |-> GridColor(i, gridSize, c)]
            ELSE <<>>]

\* no geometry yet (particles === null)
NoDataset ==
    [position |-> <<>>, aGridColor |-> <<>>, aSize |-> <<>>,
     aPositionTarget |-> <<>>, aColor |-> <<>>, aTargetSize |-> <<>>]

\* the sampled particles a geometry of count particles holds
Held(count) == {i \in SampleParticles : i < count}

\* the copy loop of initParticles: origin values copied from the global
\* arrays; the target position, colour and size of particle i are computed
\* from vertex i of the model (and one Math.random() draw for the size)
BuildDataset(g, adjustedCount, random) ==
    [position |-> [i \in Held(adjustedCount) |-> g.positions[i]],
     aGridColor |-> [i \in Held(adjustedCount) |-> g.gridColors[i]],
     aSize |-> [i \in Held(adjustedCount) |-> g.particleSizes[i]],
     aPositionTarget |-> [i \in Held(adjustedCount) |-> [vertex |-> i]],
     aColor |-> [i \in Held(adjustedCount) |-> [vertex |-> i]],
     aTargetSize |->
        [i \in Held(adjustedCount) |-> [vertex |-> i, random |-> random]]]

\* the copy loop of initParticles in part_002: no aGridColor and no
\* aTargetSize; aSize holds the size computed from vertex i of the model
BuildDatasetNoGrid(g, adjustedCount, random) ==
    [position |-> [i \in Held(adjustedCount) |-> g.positions[i]],
     aGridColor |-> <<>>,
     aSize |-> [i \in Held(adjustedCount) |->
                   [vertex |-> i, random |-> random]],
     aPositionTarget |-> [i \in Held(adjustedCount) |-> [vertex |-> i]],
     aColor |-> [i \in Held(adjustedCount) |-> [vertex |-> i]],
     aTargetSize |-> <<>>]

\* the loop of regenerateParticles in part_002: only position is rewritten
RegeneratedPositions(ds, count, c) ==
    [ds EXCEPT
       !.position = [i \in Held(count) |->
                        GridPosition(i, GridSize(count), c)]]

\* variant of RegeneratedDataset that also redraws the target sizes
RegeneratedDataset_TargetSizes(ds, count, c, random) ==
    LET gridSize == GridSize(count)
    IN  [ds EXCEPT
           !.position = [i \in Held(count) |-> GridPosition(i, gridSize, c)],
           !.aGridColor = [i \in Held(count) |-> GridColor(i, gridSize, c)],
           !.aSize = [i \in Held(count) |->
                         GridParticleSize(i, gridSize, c, random)],
           !.aTargetSize = [i \in Held(count) |->
                               [vertex |-> i, random |-> random]]]

\* the loop of regenerateParticles over the count = positions.length / 3
\* particles of the geometry: position, aGridColor and aSize are rewritten
\* in place on a grid of Math.ceil(Math.sqrt(count)) columns
RegeneratedDataset(ds, count, c, random) ==
    LET gridSize == GridSize(count)
    IN  [ds EXCEPT
           !.position = [i \in Held(count) |-> GridPosition(i, gridSize, c)],
           !.aGridColor = [i \in Held(count) |-> GridColor(i, gridSize, c)],
           !.aSize = [i \in Held(count) |->
                         GridParticleSize(i, gridSize, c, random)]]

\* variant of RegenerateSkips that never returns early
RegenerateSkips_Never(p) == FALSE

\* if (!particles) return; at the top of regenerateParticles
RegenerateSkips(p) == ~p

\* variant of RestoredAnimationState that leaves depthWrite switched off
RestoredAnimationState_DepthWriteOff(saved) ==
    [uProgress |-> saved.uProgress,
     uBlendTransition |-> saved.uBlendTransition, uTime |-> saved.uTime,
     blending |-> saved.blending, depthWrite |-> FALSE]

\* variant of RestoredAnimationState that restarts the wave clock
RestoredAnimationState_ClockReset(saved) ==
    [uProgress |-> saved.uProgress,
     uBlendTransition |-> saved.uBlendTransition, uTime |-> 0,
     blending |-> saved.blending, depthWrite |-> saved.depthWrite]

\* currentProgress, currentBlendTransition, currentBlending and
\* currentDepthWrite written back at the end of regenerateParticles;
\* part_002 also writes back currentTime, main.js does not touch uTime
RestoredAnimationState(saved) ==
    [uProgress |-> saved.uProgress,
     uBlendTransition |-> saved.uBlendTransition, uTime |-> saved.uTime,
     blending |-> saved.blending, depthWrite |-> saved.depthWrite]

\* The functions below take and return the part w of the program state they
\* can touch: w.config, w.uniforms, w.dataset, w.anim (uProgress,
\* uBlendTransition, uTime, blending, depthWrite of the material) and
\* w.thrown; w.variant is the script that runs; p is the truth value of
\* particles, count the geometry's particle count.

\* function regenerateParticles()
regenerateParticles(w, p, count, random) ==
    IF RegenerateSkips(p)
    THEN w
    ELSE IF ~p
         THEN [w EXCEPT !.thrown = TRUE]
         ELSE [w EXCEPT
                 !.dataset = IF w.variant = "main"
                             THEN RegeneratedDataset(w.dataset, count,
                                                     w.config, random)
                             ELSE RegeneratedPositions(w.dataset, count,
                                                       w.config),
                 !.anim = RestoredAnimationState(w.anim)]

\* function calculateDisplayOffsets(), on the globals c
calculateDisplayOffsets(c) ==
    [c EXCEPT !.displayOffsetX = c.waveOffsetX - (0 - 75),
              !.displayOffsetY = c.waveOffsetY - (0 - 25),
              !.displayOffsetZ = c.waveOffsetZ - (0 - 320),
              !.displayRotationX = c.waveRotationX - (0 - 573),
              !.displayRotationY = c.waveRotationY - 573,
              !.displayRotationZ = c.waveRotationZ - 0]

\* variant of updateWaveOffsets that updates the globals only
updateWaveOffsets_GlobalsOnly(w, p, x, y, z) ==
    [w EXCEPT
       !.config = calculateDisplayOffsets(
                    [w.config EXCEPT !.waveOffsetX = x, !.waveOffsetY = y,
                                     !.waveOffsetZ = z])]

\* function updateWaveOffsets(x, y, z)
updateWaveOffsets(w, p, x, y, z) ==
    [w EXCEPT
       !.config = calculateDisplayOffsets(
                    [w.config EXCEPT !.waveOffsetX = x, !.waveOffsetY = y,
                                     !.waveOffsetZ = z]),
       !.uniforms = IF p
                    THEN [w.uniforms EXCEPT !.uWaveOffsetX = x,
                                            !.uWaveOffsetY = y,
                                            !.uWaveOffsetZ = z]
                    ELSE w.uniforms]

\* function updateWaveRotations(x, y, z)
updateWaveRotations(w, p, x, y, z) ==
    [w EXCEPT
       !.config = [w.config EXCEPT !.displayRotationX = x - (0 - 573),
                                   !.displayRotationY = y - 573,
                                   !.displayRotationZ = z - 0,
                                   !.waveRotationX = x, !.waveRotationY = y,
                                   !.waveRotationZ = z],
       !.uniforms = IF p
                    THEN [w.uniforms EXCEPT !.uWaveRotationX = x,
                                            !.uWaveRotationY = y,
                                            !.uWaveRotationZ = z]
                    ELSE w.uniforms]

\* function updateDarknessParams(distance, height, distantHeight)
updateDarknessParams(w, p, distance, height, distantHeight) ==
    [w EXCEPT
       !.config = [w.config EXCEPT !.distanceDarknessFactor = distance,
                                   !.heightDarknessFactor = height,
                                   !.distantHeightBoost = distantHeight],
       !.uniforms = IF p
                    THEN [w.uniforms EXCEPT
                            !.uDistanceDarknessFactor = distance,
                            !.uHeightDarknessFactor = height,
                            !.uDistantHeightBoost = distantHeight]
                    ELSE w.uniforms]

\* function updateWaveDensity(width, depth, zOffset)
updateWaveDensity(w, p, count, random, width, depth, zOffset) ==
    regenerateParticles(
        [w EXCEPT !.config = [w.config EXCEPT
                                !.waveWidthFactor = Max(50, width),
                                !.waveDepthFactor = Max(100, depth),
                                !.waveZOffset = Max(0, zOffset)]],
        p, count, random)

\* values of event.key: the bound keys in lower case ("a" also stands for
\* "A", and so on) and one key that is not bound
Keys ==
    {"h", "1", "2", "3", "4", "5", "6", "a", "d", "w", "s", "q", "e",
     "ArrowLeft", "ArrowRight", "ArrowUp", "ArrowDown", "PageUp", "PageDown",
     "r", "z", "x"}

\* the keys that reach regenerateParticles: Shift + arrows / pages, and R
DensityKey(key, shiftKey) ==
    \/ shiftKey /\ key \in {"ArrowLeft", "ArrowRight", "ArrowUp", "ArrowDown",
                            "PageUp", "PageDown"}
    \/ key = "r"

\* values of event.shiftKey tried with a key: the listeners read it only
\* next to the arrow and page keys
ShiftStates(key) ==
    IF key \in {"ArrowLeft", "ArrowRight", "ArrowUp", "ArrowDown", "PageUp",
                "PageDown"}
    THEN BOOLEAN
    ELSE {FALSE}

\* values of the Math.random() draws of a keydown event: there are draws
\* only when regenerateParticles is reached
KeyDraws(key, shiftKey) ==
    IF DensityKey(key, shiftKey) THEN RandomValues ELSE {0}

\* const darknessStep = 0.05, offsetStep = 0.05, densityStep = 0.1
darknessStep == 5
offsetStep == 5
densityStep == 10

\* the first "keydown" listener (camera helper, darkness, offsets, density,
\* resets); each key matches one group of its if statements; part_002 has
\* no darkness keys and no darkness reset
ControlKeys(w, p, count, random, key, shiftKey) ==
    LET c == w.config
    IN  CASE key = "h" ->
               [w EXCEPT !.config.cameraHelperVisible = ~c.cameraHelperVisible]
          [] key = "1" /\ w.variant = "main" ->
               updateDarknessParams(w, p,
                   Max(0, c.distanceDarknessFactor - darknessStep),
                   c.heightDarknessFactor, c.distantHeightBoost)
          [] key = "2" /\ w.variant = "main" ->
               updateDarknessParams(w, p,
                   Min(100, c.distanceDarknessFactor + darknessStep),
                   c.heightDarknessFactor, c.distantHeightBoost)
          [] key = "3" /\ w.variant = "main" ->
               updateDarknessParams(w, p, c.distanceDarknessFactor,
                   Max(0, c.heightDarknessFactor - darknessStep * 2),
                   c.distantHeightBoost)
          [] key = "4" /\ w.variant = "main" ->
               updateDarknessParams(w, p, c.distanceDarknessFactor,
                   Min(200, c.heightDarknessFactor + darknessStep * 2),
                   c.distantHeightBoost)
          [] key = "5" /\ w.variant = "main" ->
               updateDarknessParams(w, p, c.distanceDarknessFactor,
                   c.heightDarknessFactor,
                   Max(0, c.distantHeightBoost - darknessStep * 2))
          [] key = "6" /\ w.variant = "main" ->
               updateDarknessParams(w, p, c.distanceDarknessFactor,
                   c.heightDarknessFactor,
                   Min(200, c.distantHeightBoost + darknessStep * 2))
          [] key = "a" ->
               updateWaveOffsets(w, p, c.waveOffsetX - offsetStep,
                                 c.waveOffsetY, c.waveOffsetZ)
          [] key = "d" ->
               updateWaveOffsets(w, p, c.waveOffsetX + offsetStep,
                                 c.waveOffsetY, c.waveOffsetZ)
          [] key = "w" ->
               updateWaveOffsets(w, p, c.waveOffsetX,
                                 c.waveOffsetY + offsetStep, c.waveOffsetZ)
          [] key = "s" ->
               updateWaveOffsets(w, p, c.waveOffsetX,
                                 c.waveOffsetY - offsetStep, c.waveOffsetZ)
          [] key = "q" ->
               updateWaveOffsets(w, p, c.waveOffsetX, c.waveOffsetY,
                                 c.waveOffsetZ - offsetStep)
          [] key = "e" ->
               updateWaveOffsets(w, p, c.waveOffsetX, c.waveOffsetY,
                                 c.waveOffsetZ + offsetStep)
          [] shiftKey /\ key = "ArrowLeft" ->
               updateWaveDensity(w, p, count, random,
                   c.waveWidthFactor - densityStep, c.waveDepthFactor,
                   c.waveZOffset)
          [] shiftKey /\ key = "ArrowRight" ->
               updateWaveDensity(w, p, count, random,
                   c.waveWidthFactor + densityStep, c.waveDepthFactor,
                   c.waveZOffset)
          [] shiftKey /\ key = "ArrowUp" ->
               updateWaveDensity(w, p, count, random, c.waveWidthFactor,
                   c.waveDepthFactor + densityStep, c.waveZOffset)
          [] shiftKey /\ key = "ArrowDown" ->
               updateWaveDensity(w, p, count, random, c.waveWidthFactor,
                   c.waveDepthFactor - densityStep, c.waveZOffset)
          [] shiftKey /\ key = "PageUp" ->
               updateWaveDensity(w, p, count, random, c.waveWidthFactor,
                   c.waveDepthFactor, c.waveZOffset + densityStep)
          [] shiftKey /\ key = "PageDown" ->
               updateWaveDensity(w, p, count, random, c.waveWidthFactor,
                   c.waveDepthFactor, c.waveZOffset - densityStep)
          [] key = "r" ->
               LET w1 == updateWaveOffsets(w, p, c.waveOffsetX, c.waveOffsetY,
                                           c.waveOffsetZ)
                   w2 == updateWaveRotations(w1, p, c.waveRotationX,
                                             c.waveRotationY, c.waveRotationZ)
                   w3 == updateWaveDensity(w2, p, count, random,
                                           c.waveWidthFactor,
                                           c.waveDepthFactor, c.waveZOffset)
               IN  IF w.variant = "main"
                   THEN updateDarknessParams(w3, p, 30, 100, 120)
                   ELSE w3
          [] key = "z" ->
               updateWaveRotations(updateWaveOffsets(w, p, 0, 0, 0), p,
                                   0, 0, 0)
          [] OTHER -> w

\* variant of DebugKey in which the D key is not bound a second time
DebugKey_Unbound(w, key) == w

\* the second "keydown" listener of main.js: D toggles debugMode
DebugKey(w, key) ==
    IF key = "d" /\ w.variant = "main"
    THEN [w EXCEPT !.config.debugMode = ~w.config.debugMode]
    ELSE w

\* the setTimeout callback registered on DOMContentLoaded
TimerCallback(w, p, count, random) ==
    LET c == w.config
        w1 == updateWaveOffsets(w, p, c.waveOffsetX, c.waveOffsetY,
                                c.waveOffsetZ)
        w2 == updateWaveRotations(w1, p, c.waveRotationX, c.waveRotationY,
                                  c.waveRotationZ)
        w3 == updateWaveDensity(w2, p, count, random, c.waveWidthFactor,
                                c.waveDepthFactor, c.waveZOffset)
    IN  [w3 EXCEPT !.config = calculateDisplayOffsets(w3.config)]

\* ---------------------------------------------------------------- actions
\* state after the top-level script has run: no particles yet; scrollY is
\* window.scrollY at that moment (a reloaded page may already be scrolled)
\* --------------------------------------------------------- debug display
\* the text of a number: its sign and its magnitude in tenths
FixedText(negative, tenths) == [negative |-> negative, tenths |-> tenths]

\* Number.prototype.toFixed(1) of n / d (d > 0): "-" if the number is below
\* zero, then the magnitude rounded to the nearest tenth, the larger one on a
\* tie
ToFixed1(n, d) ==
    LET a == IF n < 0 THEN 0 - n ELSE n
    IN  FixedText(n < 0, 10 * (a \div d) + (20 * (a % d) + d) \div (2 * d))

\* the display while it is not followed
NoDisplay ==
    [followed |-> FALSE, scroll |-> FixedText(FALSE, 0), active |-> FALSE,
     rotX |-> FixedText(FALSE, 0), rotY |-> FixedText(FALSE, 0)]

\* updateDebugDisplay(): "Scroll: <progress.toFixed(1)>% | Rotation: active"
\* with particles.rotation in degrees if (progress >= 60 && particles),
\* "Rotation: inactive" with the literal 0.0 otherwise; sy is the global
\* scrollY, p is particles !== null, rot is particles.rotation
updateDebugDisplay(v, sy, p, rot) ==
    LET progress == Progress(sy)
        active == progress >= Pct(60) /\ p
    IN  [followed |-> TRUE,
         scroll |-> ToFixed1(progress, PixelsPerPercent),
         active |-> active,
         rotX |-> IF active THEN ToFixed1(rot.x, XDen)
                            ELSE FixedText(FALSE, 0),
         rotY |-> IF active THEN ToFixed1(rot.y, YDen(v))
                            ELSE FixedText(FALSE, 0)]

\* the display after a call of updateDebugDisplay that renders new
DisplayAfter(d, new) == IF d.followed THEN new ELSE d

\* the keydown events whose handlers end in updateDebugDisplay(): H, the
\* darkness keys of main.js, the offset keys, Shift + arrows / pages, R and Z
KeyRefreshesDisplay(v, key, shiftKey) ==
    \/ key \in {"h", "a", "d", "w", "s", "q", "e", "r", "z"}
    \/ key \in {"1", "2", "3", "4", "5", "6"} /\ v = "main"
    \/ shiftKey /\ key \in {"ArrowLeft", "ArrowRight", "ArrowUp", "ArrowDown",
                             "PageUp", "PageDown"}

InitScript ==
    /\ variant \in Variants
    /\ particles = FALSE
    /\ xShape = 0 - 1
    /\ scrollY \in ScrollPositions
    /\ uProgress = 0
    /\ uBlendTransition = 0
    /\ uTime = 0
    /\ blending = "none"
    /\ depthWrite = FALSE
    /\ rotation = ZeroRotation
    /\ attributes = [a \in AllAttributes |-> 0 - 1]
    /\ reads = NoReads
    /\ handledSinceLoad = FALSE
    /\ shaded = NoShaded
    /\ config = InitialConfig(variant)
    /\ uniforms = NoUniforms
    /\ dataset = NoDataset
    /\ timer = "waiting"
    /\ keyPresses = 0
    /\ thrown = FALSE

\* the script on its own: no vertex is followed through the shader
Init ==
    /\ InitScript
    /\ vertex = NoVertex
    /\ grid = InitialGrid(variant, 0)
    /\ debugDisplay = NoDisplay

\* main.js with one vertex followed through the vertex shader
InitShader ==
    /\ InitScript
    /\ variant = "main"
    /\ scrollY = 0
    /\ vertex \in VertexInputs
    /\ grid = InitialGrid(variant, 0)
    /\ debugDisplay = NoDisplay

\* every script from the top of the page, with the keyboard controls and the
\* startup timer of main.js and part_002
InitKeys ==
    /\ InitScript
    /\ scrollY = 0
    /\ vertex = NoVertex
    /\ grid = InitialGrid(variant, 0)
    /\ debugDisplay = NoDisplay

\* main.js and part_002 with the debug display followed: the script ends with
\* updateDebugDisplay() while particles is still null
InitDisplay ==
    /\ InitScript
    /\ HasControls(variant)
    /\ vertex = NoVertex
    /\ grid = InitialGrid(variant, 0)
    /\ debugDisplay = updateDebugDisplay(variant, scrollY, FALSE, ZeroRotation)

\* loader.load callback: xShape = ...; initParticles(), with the value
\* random of its Math.random() draws; the per-particle values and the wave
\* and darkness uniforms are followed in main.js and part_002
LoadCallbackDraw(tvc, random) ==
    /\ ~particles
    /\ xShape' = tvc
    /\ LET adjustedCount == AdjustedCount(particlesCount, tvc)
       IN  /\ attributes' = BuildAttributes(variant, adjustedCount)
           /\ reads' = InitParticlesReads(variant, adjustedCount)
           /\ dataset' = IF variant = "main"
                         THEN BuildDataset(grid, adjustedCount, random)
                         ELSE IF variant = "part_002"
                         THEN BuildDatasetNoGrid(grid, adjustedCount, random)
                         ELSE NoDataset
    /\ uniforms' = IF HasControls(variant) THEN MaterialUniforms(config)
                                           ELSE NoUniforms
    /\ uProgress' = 0
    /\ uBlendTransition' = 0
    /\ uTime' = 0
    /\ blending' = InitialMaterial(variant).blending
    /\ depthWrite' = InitialMaterial(variant).depthWrite
    /\ rotation' = ZeroRotation
    /\ particles' = TRUE
    /\ UNCHANGED <<variant, scrollY, handledSinceLoad, shaderVars, config, grid,
                   timer, keyPresses, thrown, debugDisplay>>

\* the load callback with the first of the two values of its draws
LoadCallback(tvc) == LoadCallbackDraw(tvc, 0)

\* window "scroll" listener with window.scrollY = y; updateDebugDisplay()
\* runs after the assignment of scrollY and before the writes to particles
Scroll(y) ==
    /\ scrollY' = y
    /\ debugDisplay' = DisplayAfter(debugDisplay,
                           updateDebugDisplay(variant, y, particles, rotation))
    /\ IF particles
       THEN LET progress == Progress(y)
                blendProgress == BlendProgress(progress)
            IN  /\ uProgress' = UProgressValue(uProgress, progress)
                /\ IF HasBlendSwitch(variant)
                   THEN /\ uBlendTransition' = SmoothBlendProgress(blendProgress)
                        /\ blending' = NextBlending(blending, blendProgress)
                        /\ depthWrite' = NextDepthWrite(depthWrite, blendProgress)
                   ELSE UNCHANGED <<uBlendTransition, blending, depthWrite>>
                /\ rotation' = ScrollRotation(variant, progress, rotation)
                /\ handledSinceLoad' = TRUE
       ELSE UNCHANGED <<uProgress, uBlendTransition, blending, depthWrite,
                        rotation, handledSinceLoad>>
    /\ UNCHANGED <<variant, particles, xShape, uTime, attributes, reads,
                   shaderVars, controlVars>>

\* const waveSpeed = 1 (main.js)
waveSpeed == 1
\* values of clock.getDelta(), in hundredths
DeltaTimes == 0 .. MaxTime

\* uTime increment of one frame: deltaTime * waveSpeed in main.js (only if
\* waveSpeed > 0), 0.01 in the other variants
TimeStep(v, deltaTime) ==
    IF v = "main"
    THEN (IF waveSpeed > 0 THEN deltaTime * waveSpeed ELSE 0)
    ELSE 1

\* renderer.render(scene, camera): the vertex shader runs on the followed
\* vertex with the uniforms of the material, uTime = time
Render(time) ==
    IF vertex = NoVertex
    THEN shaded
    ELSE ShaderMain(vertex, ProgressTenths(uProgress), time, uniforms)

\* animate(): one animation frame, the uTime update and the render
Animate(deltaTime) ==
    /\ particles
    /\ uTime + TimeStep(variant, deltaTime) <= MaxTime
    /\ uTime' = uTime + TimeStep(variant, deltaTime)
    /\ shaded' = Render(uTime + TimeStep(variant, deltaTime))
    /\ UNCHANGED <<variant, particles, xShape, scrollY, uProgress,
                   uBlendTransition, blending, depthWrite, rotation,
                   attributes, reads, handledSinceLoad, vertex,
                   controlVars, debugDisplay>>

\* animate() while particles === null: nothing but the render call
AnimatePending ==
    /\ ~particles
    /\ UNCHANGED vars

\* the part of the program state the control functions can touch
World ==
    [variant |-> variant,
     config |-> config, uniforms |-> uniforms, dataset |-> dataset,
     anim |-> [uProgress |-> uProgress, uBlendTransition |-> uBlendTransition,
               uTime |-> uTime, blending |-> blending,
               depthWrite |-> depthWrite],
     thrown |-> thrown]

\* the state left by the control functions
Becomes(w) ==
    /\ config' = w.config
    /\ uniforms' = w.uniforms
    /\ dataset' = w.dataset
    /\ uProgress' = w.anim.uProgress
    /\ uBlendTransition' = w.anim.uBlendTransition
    /\ uTime' = w.anim.uTime
    /\ blending' = w.anim.blending
    /\ depthWrite' = w.anim.depthWrite
    /\ thrown' = w.thrown

\* window "DOMContentLoaded" listener: setTimeout(..., 100)
DOMContentLoaded ==
    /\ HasControls(variant)
    /\ timer = "waiting"
    /\ timer' = "armed"
    /\ UNCHANGED <<variant, particles, xShape, scrollY, uProgress,
                   uBlendTransition, uTime, blending, depthWrite, rotation,
                   attributes, reads, handledSinceLoad, shaderVars, config,
                   uniforms, grid, dataset, keyPresses, thrown, debugDisplay>>

\* the setTimeout callback, with the value random of the Math.random()
\* draws of regenerateParticles
TimerFires(random) ==
    /\ HasControls(variant)
    /\ timer = "armed"
    /\ timer' = "fired"
    /\ Becomes(TimerCallback(World, particles, attributes["position"], random))
    /\ debugDisplay' = DisplayAfter(debugDisplay,
                           updateDebugDisplay(variant, scrollY, particles,
                                              rotation))
    /\ UNCHANGED <<variant, particles, xShape, scrollY, rotation,
                   attributes, reads, handledSinceLoad, shaderVars, grid,
                   keyPresses>>

\* one "keydown" event through the listeners, in registration order, while
\* fewer than limit key presses have been followed
KeyDownWithin(limit, key, shiftKey, random) ==
    /\ HasControls(variant)
    /\ keyPresses < limit
    /\ keyPresses' = keyPresses + 1
    /\ Becomes(DebugKey(ControlKeys(World, particles, attributes["position"],
                                    random, key, shiftKey), key))
    /\ debugDisplay' = IF KeyRefreshesDisplay(variant, key, shiftKey)
                       THEN DisplayAfter(debugDisplay,
                               updateDebugDisplay(variant, scrollY, particles,
                                                  rotation))
                       ELSE debugDisplay
    /\ UNCHANGED <<variant, particles, xShape, scrollY, rotation,
                   attributes, reads, handledSinceLoad, shaderVars, grid,
                   timer>>

\* one "keydown" event
KeyDown(key, shiftKey, random) ==
    KeyDownWithin(MaxKeyPresses, key, shiftKey, random)

\* "click" listener of #toggleDebug (main.js): debugMode = !debugMode
ToggleDebugClick ==
    /\ variant = "main"
    /\ config' = [config EXCEPT !.debugMode = ~config.debugMode]
    /\ UNCHANGED <<variant, particles, xShape, scrollY, uProgress,
                   uBlendTransition, uTime, blending, depthWrite, rotation,
                   attributes, reads, handledSinceLoad, shaderVars,
                   uniforms, grid, dataset, timer, keyPresses, thrown,
                   debugDisplay>>

Next ==
    \/ \E tvc \in ModelVertexCounts : LoadCallback(tvc)
    \/ \E y \in ScrollPositions : Scroll(y)
    \/ \E deltaTime \in DeltaTimes : Animate(deltaTime)
    \/ AnimatePending

Spec == Init /\ [][Next]_vars

\* the dataset construction on its own: the load callback for every model
\* size, at every scroll position and in every variant
NextData == \E tvc \in TargetVertexCounts : LoadCallback(tvc)

SpecData == Init /\ [][NextData]_vars

\* scroll positions at whole tenths of progress
TenthScrollPositions == {y \in 0 .. ScrollRange : OnTenth(Progress(y))}

\* the scroll positions at which the mixed noise of the followed vertex is
\* remapped onto a whole multiple of 1 / NoiseDen
ShaderScrollPositions ==
    {y \in TenthScrollPositions :
        NoiseOnGrid(NoiseMix(vertex.noiseOrigin, vertex.noiseTarget,
                             ProgressTenths(Progress(y))))}

\* the keys tried next to the vertex shader: one offset key and the Z reset
ShaderKeys == {"a", "z"}

\* the vertex shader of main.js: load, scroll, keys that change the wave
\* uniforms, animation frames
NextShader ==
    \/ \E tvc \in ModelVertexCounts : LoadCallback(tvc)
    \/ \E y \in ShaderScrollPositions : Scroll(y)
    \/ \E key \in ShaderKeys : KeyDown(key, FALSE, 0)
    \/ \E deltaTime \in DeltaTimes : Animate(deltaTime)

SpecShader == InitShader /\ [][NextShader]_vars

\* scroll positions tried next to the keyboard controls: the top and one
\* past the blend switch
KeyScrollPositions ==
    {y \in 0 .. ScrollRange : Progress(y) \in {Pct(0), Pct(54)}}

\* load, scroll and frames of every script, keyboard controls and startup
\* timer of main.js and part_002
NextKeys ==
    \/ \E tvc \in ModelVertexCounts, random \in RandomValues :
          LoadCallbackDraw(tvc, random)
    \/ \E y \in KeyScrollPositions : Scroll(y)
    \/ \E deltaTime \in DeltaTimes : Animate(deltaTime)
    \/ AnimatePending
    \/ DOMContentLoaded
    \/ \E random \in RandomValues : TimerFires(random)
    \/ \E key \in Keys :
          \E shiftKey \in ShiftStates(key) :
             \E random \in KeyDraws(key, shiftKey) :
                KeyDown(key, shiftKey, random)
    \/ ToggleDebugClick

SpecKeys == InitKeys /\ [][NextKeys]_vars

\* main.js and part_002 from the top of the page
InitReset == InitKeys /\ HasControls(variant)

\* sequences of keydown events of main.js and part_002, before and after the
\* load callback
NextReset ==
    \/ \E tvc \in ModelVertexCounts, random \in RandomValues :
          LoadCallbackDraw(tvc, random)
    \/ \E key \in Keys :
          \E shiftKey \in ShiftStates(key) :
             \E random \in KeyDraws(key, shiftKey) :
                KeyDownWithin(MaxResetPresses, key, shiftKey, random)
    \/ ToggleDebugClick

SpecReset == InitReset /\ [][NextReset]_vars

\* the load callback and the scroll listener of main.js and part_002 with
\* the debug display followed, for scroll events on every fifth percent of
\* the page
DisplayScrollPositions == {y \in ScrollPositions : y % Pct(5) = 0}

NextDisplay ==
    \/ \E tvc \in ModelVertexCounts : LoadCallback(tvc)
    \/ \E y \in DisplayScrollPositions : Scroll(y)

SpecDisplay == InitDisplay /\ [][NextDisplay]_vars

TypeOK ==
    /\ variant \in Variants
    /\ particles \in BOOLEAN
    /\ scrollY \in ScrollPositions
    /\ blending \in {"none", "Additive", "Normal"}
    /\ depthWrite \in BOOLEAN
    /\ uTime \in 0 .. MaxTime

\* ------------------------------------------------------------- properties
\* a scroll event handled with particles loaded, in a variant that has the
\* blend / depth-write switch (main.js, part_002)
HandledSwitchScroll == particles /\ HasBlendSwitch(variant) /\ Scroll(scrollY')

\* blendProgress of the scroll event of a step, numerator over BlendDen
EventBlendProgress == BlendProgress(Progress(scrollY'))

\* blendProgress of the latest scroll event
StateBlendProgress == BlendProgress(Progress(scrollY))

\* C1: on a scroll event handled with particles loaded, blending goes from
\* Additive to Normal exactly when the event's blendProgress is > 0.6, from
\* Normal to Additive exactly when it is <= 0.4, and is unchanged by every
\* event with 0.4 < blendProgress <= 0.6.
Thm_C1 ==
    [][HandledSwitchScroll =>
        LET b == EventBlendProgress
        IN  /\ blending \in {"Additive", "Normal"}
            /\ blending' \in {"Additive", "Normal"}
            /\ (blending = "Additive") =>
                 ((blending' = "Normal") <=> (b * 10 > 6 * BlendDen))
            /\ (blending = "Normal") =>
                 ((blending' = "Additive") <=> (b * 10 <= 4 * BlendDen))
            /\ (b * 10 > 4 * BlendDen /\ b * 10 <= 6 * BlendDen) =>
                 blending' = blending]_vars

\* C1 witness: Normal blending kept by an event inside the band (0.4, 0.6],
\* i.e. an earlier event above 0.6 switched it and this one left it alone
Wit_C1 ==
    /\ handledSinceLoad /\ HasBlendSwitch(variant)
    /\ blending = "Normal"
    /\ StateBlendProgress * 10 > 4 * BlendDen
    /\ StateBlendProgress * 10 <= 6 * BlendDen

\* C2: on a scroll event handled with particles loaded, depthWrite goes from
\* false to true exactly when blendProgress > 0.55, from true to false
\* exactly when blendProgress <= 0.45, and is unchanged for
\* 0.45 < blendProgress <= 0.55, whatever the blend mode is.
Thm_C2 ==
    [][HandledSwitchScroll =>
        LET b == EventBlendProgress
        IN  /\ (depthWrite = FALSE) =>
                 ((depthWrite' = TRUE) <=> (b * 100 > 55 * BlendDen))
            /\ (depthWrite = TRUE) =>
                 ((depthWrite' = FALSE) <=> (b * 100 <= 45 * BlendDen))
            /\ (b * 100 > 45 * BlendDen /\ b * 100 <= 55 * BlendDen) =>
                 depthWrite' = depthWrite]_vars

\* C2 witness: depth write already on while blending is still Additive
Wit_C2 ==
    /\ handledSinceLoad /\ HasBlendSwitch(variant)
    /\ depthWrite = TRUE
    /\ blending = "Additive"

\* C3: a scroll event whose blendProgress is strictly inside (0.4, 0.6)
\* never changes the blend mode, whatever the mode was; the mode changes
\* only on events with blendProgress > 0.6 or <= 0.4.
Thm_C3 ==
    [][HandledSwitchScroll =>
        LET b == EventBlendProgress
        IN  /\ (b * 10 > 4 * BlendDen /\ b * 10 < 6 * BlendDen) =>
                 blending' = blending
            /\ (blending' # blending) =>
                 (b * 10 > 6 * BlendDen \/ b * 10 <= 4 * BlendDen)]_vars

\* C3 witness: scroll progress 48% (blendProgress 0.433...) handled while the
\* mode is Normal, which a single 0.5 threshold would have turned Additive
Wit_C3 ==
    /\ handledSinceLoad /\ HasBlendSwitch(variant)
    /\ Progress(scrollY) = Pct(48)
    /\ blending = "Normal"

\* C4 as stated: for every sequence of scroll events, no single scroll event
\* changes both the blend mode and depthWrite.
Cex_C4 ==
    [][HandledSwitchScroll =>
        ~(blending' # blending /\ depthWrite' # depthWrite)]_vars

\* C4 amended: a handled scroll event whose progress is within 1.5
\* percentage points of the previous handled scroll event's progress never
\* changes both the blend mode and depthWrite.
Thm_C4 ==
    [][(HandledSwitchScroll /\ handledSinceLoad
        /\ 2 * (Progress(scrollY') - Progress(scrollY)) <= 3 * PixelsPerPercent
        /\ 2 * (Progress(scrollY) - Progress(scrollY')) <= 3 * PixelsPerPercent)
       => ~(blending' # blending /\ depthWrite' # depthWrite)]_vars

\* C4 witness: the staggered state on the way back, depth write already off
\* while blending is still Normal
Wit_C4 ==
    /\ handledSinceLoad /\ HasBlendSwitch(variant)
    /\ blending = "Normal"
    /\ depthWrite = FALSE

\* C5: in main.js and part_002 the material created by the load callback
\* starts Additive, depthWrite false, uProgress 0, uBlendTransition 0 and
\* unrotated whatever the scroll position is, and stays so until a scroll
\* event is handled.
Thm_C5 ==
    (particles /\ ~handledSinceLoad /\ variant \in {"main", "part_002"}) =>
        /\ blending = "Additive"
        /\ depthWrite = FALSE
        /\ uProgress = 0
        /\ uBlendTransition = 0
        /\ rotation = [x |-> 0, y |-> 0, z |-> 0]

\* C5 witness: loaded in main.js with the page scrolled to more than 65%
\* (past both switch points), a frame rendered, no scroll event handled yet
Wit_C5 ==
    /\ particles /\ ~handledSinceLoad
    /\ variant = "main"
    /\ Progress(scrollY) > Pct(65)
    /\ uTime > 0
    /\ blending = "Additive"

\* C6 as stated: the blend-mode and depth-write decisions compare the eased
\* value b*b*(3-2b) with the thresholds 0.6 / 0.4 and 0.55 / 0.45.
Cex_C6 ==
    [][HandledSwitchScroll =>
        LET b == EventBlendProgress
            e == b * b * (3 * BlendDen - 2 * b)
            d3 == BlendDen * BlendDen * BlendDen
        IN  /\ (blending = "Additive") =>
                 ((blending' = "Normal") <=> (e * 10 > 6 * d3))
            /\ (blending = "Normal") =>
                 ((blending' = "Additive") <=> (e * 10 <= 4 * d3))
            /\ (depthWrite = FALSE) =>
                 ((depthWrite' = TRUE) <=> (e * 100 > 55 * d3))
            /\ (depthWrite = TRUE) =>
                 ((depthWrite' = FALSE) <=> (e * 100 <= 45 * d3))]_vars

\* C6 amended: the value compared with the thresholds is the un-eased
\* blendProgress = clamp((progress - 35%) / 30%, 0, 1); the eased value
\* b*b*(3-2b) is only stored in uBlendTransition and decides neither switch.
Thm_C6 ==
    [][HandledSwitchScroll =>
        LET b == EventBlendProgress
            e == b * b * (3 * BlendDen - 2 * b)
            d3 == BlendDen * BlendDen * BlendDen
        IN  /\ uBlendTransition' = e
            /\ (blending = "Additive" /\ e * 10 > 6 * d3 /\ b * 10 <= 6 * BlendDen)
                 => blending' = "Additive"
            /\ (depthWrite = FALSE /\ e * 100 > 55 * d3 /\ b * 100 <= 55 * BlendDen)
                 => depthWrite' = FALSE
            /\ (blending = "Normal" /\ e * 10 <= 4 * d3 /\ b * 10 > 4 * BlendDen)
                 => blending' = "Normal"
            /\ (depthWrite = TRUE /\ e * 100 <= 45 * d3 /\ b * 100 > 45 * BlendDen)
                 => depthWrite' = TRUE
            /\ (blending = "Additive" /\ b * 10 > 6 * BlendDen) => blending' = "Normal"
            /\ (blending = "Normal" /\ b * 10 <= 4 * BlendDen) => blending' = "Additive"
            /\ (depthWrite = FALSE /\ b * 100 > 55 * BlendDen) => depthWrite' = TRUE
            /\ (depthWrite = TRUE /\ b * 100 <= 45 * BlendDen) => depthWrite' = FALSE]_vars

\* C6 witness: after a handled scroll event the eased value stored in
\* uBlendTransition is above 0.6 and blending is still Additive
Wit_C6 ==
    /\ handledSinceLoad /\ HasBlendSwitch(variant)
    /\ uBlendTransition * 10 > 6 * BlendDen * BlendDen * BlendDen
    /\ blending = "Additive"

\* C7: after a scroll event handled with particles loaded whose progress is
\* below the rotation start (60% in main.js / part_002, 20% in part_000 /
\* part_001) the rotation is exactly (0, 0, 0) whatever it was before, and
\* the rotation after a scroll event depends on that event's progress only.
Thm_C7 ==
    handledSinceLoad =>
        LET start == IF variant \in {"main", "part_002"} THEN 60 ELSE 20
            p == Progress(scrollY)
        IN  /\ (p < start * PixelsPerPercent) =>
                 rotation = [x |-> 0, y |-> 0, z |-> 0]
            /\ (p >= start * PixelsPerPercent) =>
                 rotation = ActiveRotation(variant, p)

\* C7 witness: part_000 after a scroll event at 19.5%, just below its start
\* threshold, unrotated
Wit_C7 ==
    /\ handledSinceLoad
    /\ variant = "part_000"
    /\ 2 * Progress(scrollY) = 39 * PixelsPerPercent
    /\ rotation = ZeroRotation

\* C8: in all four variants the phase-1 factor 0.5*(3t^2 - 2t^3) is 0.5 at
\* t = 1 and the phase-2 factor 0.5 + 0.5*u^2 is 0.5 at u = 0; the Y rotation
\* at progress 80% is half of the maximum, one scroll step below 80% it is
\* lower by no more than the phase-1 curve can change over that step (its
\* slope is at most 0.75 per unit of t), and the X rotation is 0 at both.
Thm_C8 ==
    LET t1 == P1Den(variant)
        half == maxRotationY * t1 * t1 * t1
        p == Progress(scrollY)
    IN  /\ 2 * (3 * t1 * t1 * t1 - 2 * t1 * t1 * t1) = YDen(variant)
        /\ 2 * YPhase1(variant, t1) = YDen(variant)
        /\ 2 * YPhase2(variant, 0) = YDen(variant)
        /\ (handledSinceLoad /\ p = 80 * PixelsPerPercent) =>
              /\ rotation.y = half
              /\ rotation.x = 0
        /\ (handledSinceLoad /\ p = 80 * PixelsPerPercent - 1) =>
              /\ rotation.y <= half
              /\ 2 * (half - rotation.y) <= maxRotationY * 3 * t1 * t1
              /\ rotation.x = 0

\* C8 witness: part_001 after a scroll event at exactly 80%, rotated by half
\* of the maximum about Y
Wit_C8 ==
    /\ handledSinceLoad
    /\ variant = "part_001"
    /\ Progress(scrollY) = Pct(80)
    /\ rotation.y > 0

\* the rotation curve of main.js / part_002 as C9 states it, at progress
\* p / PixelsPerPercent percent: y in degrees over 2 * u^3, x in degrees over
\* u^3, with u = 20 * PixelsPerPercent
CurveC9(p) ==
    LET u == 20 * PixelsPerPercent
        m == p - 60 * PixelsPerPercent
        k == p - 80 * PixelsPerPercent
        e == IF p < 80 * PixelsPerPercent
             THEN 3 * m * m * u - 2 * m * m * m
             ELSE Min(2 * u * u * u, u * u * u + k * k * u)
        x == IF p < 80 * PixelsPerPercent THEN 0 ELSE Min(u * u * u, k * k * k)
    IN  [x |-> (0 - 5) * x, y |-> 20 * e, z |-> 0]

\* C9, the curve: after a scroll event at progress >= 60% in main.js /
\* part_002 the rotation is the curve of the claim; Y is 0 at 60%, half of
\* the 20 degrees at 80%, and from 100% on X and Y are exactly -5 and 20
\* degrees.
CurveHolds_C9 ==
    (handledSinceLoad /\ variant \in {"main", "part_002"}
     /\ Progress(scrollY) >= 60 * PixelsPerPercent) =>
        LET p == Progress(scrollY)
            u == 20 * PixelsPerPercent
        IN  /\ rotation = CurveC9(p)
            /\ (p = 60 * PixelsPerPercent) => rotation.y = 0
            /\ (p = 80 * PixelsPerPercent) => rotation.y = 10 * 2 * u * u * u
            /\ (p >= 100 * PixelsPerPercent) =>
                  /\ rotation.y = 20 * 2 * u * u * u
                  /\ rotation.x = (0 - 5) * u * u * u
            /\ rotation.y <= 20 * 2 * u * u * u
            /\ rotation.x >= (0 - 5) * u * u * u
            /\ rotation.y >= 0 /\ rotation.x <= 0

\* C9, monotonicity: a handled scroll event at a progress not below that of
\* the previous handled one does not decrease the Y rotation.
Monotone_C9 ==
    [][(HandledSwitchScroll /\ handledSinceLoad /\ scrollY' >= scrollY)
       => rotation'.y >= rotation.y]_vars

\* C9: rotation curve of main.js / part_002 (closed form, end points,
\* maxima never exceeded, Y non-decreasing in progress).
Thm_C9 == []CurveHolds_C9 /\ Monotone_C9

\* C9 witness: main.js scrolled beyond 100% (overscroll), X and Y at their
\* maxima
Wit_C9 ==
    /\ handledSinceLoad
    /\ variant = "main"
    /\ Progress(scrollY) > Pct(100)
    /\ rotation.y = maxRotationY * YDen(variant)
    /\ rotation.x = maxRotationX * XDen

\* C10 (checked under SpecData): every attribute initParticles builds has exactly
\* min(particlesCount, targetVertexCount) items and the origin arrays and
\* the target array are read only at particle indices below that count;
\* with 2000 target vertices the count is 2000 and no particle index read
\* exceeds 1999.
Thm_C10 ==
    particles =>
        LET n == IF xShape < 2754 THEN xShape ELSE 2754
        IN  /\ \A a \in AttributeNames(variant) : attributes[a] = n
            /\ \A src \in SourceArrays :
                 reads[src] \div SourceItemSize(src) < n
            /\ (xShape = 2000) =>
                 /\ \A a \in AttributeNames(variant) : attributes[a] = 2000
                 /\ \A src \in SourceArrays :
                      reads[src] \div SourceItemSize(src) <= 1999

\* C10 witness: main.js loaded with a 2000-vertex model, all six attributes
\* built, the last origin and target floats read being those of particle 1999
Wit_C10 ==
    /\ particles
    /\ variant = "main"
    /\ xShape = 2000
    /\ attributes["aGridColor"] = 2000
    /\ attributes["aTargetSize"] = 2000
    /\ reads["positions"] = 5999
    /\ reads["xShape"] = 5999
    /\ reads["gridColors"] = 5999
    /\ reads["particleSizes"] = 1999

\* C13 as stated: the value the scroll listener writes to uProgress is
\* clamped to [0, 1] for every scroll position, overscroll included.
Cex_C13 ==
    (particles /\ handledSinceLoad) =>
        (uProgress >= 0 /\ uProgress <= 100 * PixelsPerPercent)

\* C20 as stated: the progress fed to the shader is exponentially smoothed,
\* so a handled scroll event that changes the raw progress leaves uProgress
\* short of the raw target (it lags and arrives only frames later).
Cex_C20 ==
    [][(particles /\ Scroll(scrollY') /\ Progress(scrollY') # uProgress)
       => uProgress' # Progress(scrollY')]_vars

\* C15: for the window (delay, end) of a vertex, delay < end, the
\* assemblyProgress computed by the shader is 0 for uProgress <= delay, 1 for
\* uProgress >= end, within [0, 1] in between, and a later shader run on the
\* same window at a uProgress that is not lower gives an assemblyProgress
\* that is not lower.
Thm_C15 ==
    /\ [](shaded.valid =>
            /\ shaded.delay < shaded.end
            /\ shaded.assemblyProgress >= 0
            /\ shaded.assemblyProgress <= 160 * 160 * 160
            /\ (shaded.tenths * 40 <= shaded.delay) =>
                  shaded.assemblyProgress = 0
            /\ (shaded.tenths * 40 >= shaded.end) =>
                  shaded.assemblyProgress = 160 * 160 * 160
            /\ (shaded.tenths * 40 > shaded.delay
                /\ shaded.tenths * 40 < shaded.end) =>
                  /\ shaded.assemblyProgress > 0
                  /\ shaded.assemblyProgress < 160 * 160 * 160)
    /\ [][(shaded.valid /\ shaded'.valid
           /\ shaded'.delay = shaded.delay /\ shaded'.end = shaded.end
           /\ shaded'.tenths >= shaded.tenths)
          => shaded'.assemblyProgress >= shaded.assemblyProgress]_vars

\* C15 witness: a shader run strictly inside a window that starts after 0
Wit_C15 ==
    /\ shaded.valid
    /\ shaded.delay > 0
    /\ shaded.tenths * 40 > shaded.delay
    /\ shaded.tenths * 40 < shaded.end
    /\ shaded.assemblyProgress > 0
    /\ shaded.assemblyProgress < AssemblyDen

\* C16: delay = 0.72 * noise lies in [0, 0.72] and end = delay + 0.4 in
\* [0.4, 1.12]; the window is not clamped, so for noise > 5/6 end exceeds 1
\* and at uProgress = 1 assemblyProgress is strictly below 1 and the vertex is
\* not at its target, while for noise <= 5/6 it is fully assembled there.
Thm_C16 ==
    shaded.valid =>
        /\ shaded.noise >= 0 /\ shaded.noise <= 32
        /\ 100 * 32 * shaded.delay = 72 * 400 * shaded.noise
        /\ shaded.delay >= 0 /\ 100 * shaded.delay <= 72 * 400
        /\ shaded.end = shaded.delay + 160
        /\ 10 * shaded.end >= 4 * 400 /\ 100 * shaded.end <= 112 * 400
        /\ (6 * shaded.noise > 5 * 32) =>
              /\ shaded.end > 400
              /\ (shaded.tenths = 10) =>
                    /\ shaded.assemblyProgress < 160 * 160 * 160
                    /\ shaded.finalPosition #
                          VScale(PosDen, vertex.aPositionTarget)
        /\ (6 * shaded.noise <= 5 * 32 /\ shaded.tenths = 10) =>
              /\ shaded.end <= 400
              /\ shaded.assemblyProgress = 160 * 160 * 160

\* C16 witness: at uProgress = 1 a vertex with noise 27/32 (> 5/6), whose
\* window ends at 1.0075, is not fully assembled
Wit_C16 ==
    /\ shaded.valid
    /\ shaded.tenths = 10
    /\ shaded.noise = 27
    /\ shaded.end = 403
    /\ shaded.assemblyProgress < AssemblyDen

\* C17: whenever uProgress >= end, assemblyProgress is 1 and the final
\* position is the target position exactly, for every value of the elapsed
\* time, the wave offset and the wave rotation; at uProgress = 1 this holds
\* for every vertex whose window has end <= 1.
Thm_C17 ==
    shaded.valid =>
        /\ (shaded.tenths * 40 >= shaded.end) =>
              /\ shaded.assemblyProgress = 160 * 160 * 160
              /\ shaded.finalPosition = VScale(PosDen, vertex.aPositionTarget)
        /\ (shaded.tenths = 10 /\ shaded.end <= 400) =>
              shaded.finalPosition = VScale(PosDen, vertex.aPositionTarget)

\* C17 witness: a fully assembled vertex before uProgress = 1, rendered
\* after time has elapsed, with non-zero wave terms, offset and rotation
Wit_C17 ==
    /\ shaded.valid
    /\ shaded.tenths < 10
    /\ shaded.assemblyProgress = AssemblyDen
    /\ shaded.uTime > 0
    /\ shaded.waveDisplacement # Zero3
    /\ shaded.offset # Zero3
    /\ shaded.rot # Zero3
    /\ shaded.staticPosition # VScale(PosDen, vertex.aPositionTarget)
    /\ shaded.finalPosition = VScale(PosDen, vertex.aPositionTarget)

\* C18: at uProgress = 0, for every noise value, delay >= 0 and
\* assemblyProgress is 0, the wave acts at full strength, and the final
\* position is the placed origin position (wave-displaced, then offset, then
\* rotated) with no contribution of the target position.
Thm_C18 ==
    (shaded.valid /\ shaded.tenths = 0) =>
        /\ shaded.delay >= 0
        /\ shaded.assemblyProgress = 0
        /\ shaded.waveStrength = 27
        /\ shaded.finalPosition = shaded.staticPosition
        /\ shaded.staticPosition =
             MatVec(RotMatrix(shaded.rot),
                    VAdd(VAdd(VScale(PosDen, vertex.position),
                              shaded.waveDisplacement),
                         VScale(PosDen \div 100, shaded.offset)))
        /\ (shaded.rot = <<0, 0, 0>>) =>
             shaded.finalPosition =
                VAdd(VAdd(VScale(PosDen, vertex.position),
                          shaded.waveDisplacement),
                     VScale(PosDen \div 100, shaded.offset))

\* C18 witness: uProgress = 0, a vertex whose window starts at 0 (noise 0),
\* rendered with non-zero wave terms and offset
Wit_C18 ==
    /\ shaded.valid
    /\ shaded.tenths = 0
    /\ shaded.noise = 0
    /\ shaded.waveDisplacement # Zero3
    /\ shaded.offset # Zero3
    /\ shaded.rot # Zero3
    /\ shaded.finalPosition # VScale(PosDen, vertex.position)
    /\ shaded.finalPosition # VScale(PosDen, vertex.aPositionTarget)

\* a noise function that returns 0 for every input
StubNoiseZero == vertex.noiseOrigin = 0 /\ vertex.noiseTarget = 0

\* C19 as stated: with a noise function returning 0 the window is delay = 0,
\* end = 0.4, and at uProgress = 0.5 position, size and colour equal their
\* uProgress = 1 values (target position, size 2, white).
Cex_C19 ==
    (shaded.valid /\ StubNoiseZero) =>
        /\ shaded.delay = 0
        /\ shaded.end = 160
        /\ (shaded.tenths = 5) =>
              /\ shaded.assemblyProgress = 160 * 160 * 160
              /\ shaded.finalPosition = VScale(PosDen, vertex.aPositionTarget)
              /\ shaded.finalSize = 2 * 160 * 160 * 160
              /\ shaded.vColor = <<27, 27, 27>>

\* C19 amended: with a noise function returning 0 the remapped noise is
\* smoothstep(-1, 1, 0) = 0.5 and the window is delay = 0.36, end = 0.76; at
\* uProgress = 0.5 assemblyProgress is 0.28175, the colour equals its
\* uProgress = 1 value (white) and position and size are 28.175% of the way
\* from static position and size 1 to target position and size 2; from
\* uProgress = 0.8 on all three equal their uProgress = 1 values.
Thm_C19 ==
    (shaded.valid /\ StubNoiseZero) =>
        /\ 2 * shaded.noise = 32
        /\ 100 * shaded.delay = 36 * 400
        /\ 100 * shaded.end = 76 * 400
        /\ (shaded.tenths = 5) =>
              /\ 625 * shaded.assemblyProgress = 28175 * 160 * 160
              /\ shaded.vColor = <<27, 27, 27>>
              /\ shaded.finalSize =
                   (160 * 160 * 160 - shaded.assemblyProgress) * 1
                     + shaded.assemblyProgress * 2
              /\ shaded.finalPosition =
                   VAdd(VWeighted(shaded.staticPosition,
                                  160 * 160 * 160 - shaded.assemblyProgress),
                        VWeighted(VScale(PosDen, vertex.aPositionTarget),
                                  shaded.assemblyProgress))
              /\ shaded.finalPosition # shaded.staticPosition
              /\ shaded.finalPosition # VScale(PosDen, vertex.aPositionTarget)
        /\ (shaded.tenths >= 8) =>
              /\ shaded.assemblyProgress = 160 * 160 * 160
              /\ shaded.finalPosition = VScale(PosDen, vertex.aPositionTarget)
              /\ shaded.finalSize = 2 * 160 * 160 * 160
              /\ shaded.vColor = <<27, 27, 27>>

\* C19 witness: noise function returning 0, shader run at uProgress = 0.5
\* with identity offset and rotation: size is 1.28175, between 1 and 2
Wit_C19 ==
    /\ shaded.valid /\ StubNoiseZero
    /\ shaded.tenths = 5
    /\ shaded.offset = Zero3 /\ shaded.rot = Zero3
    /\ shaded.finalSize > AssemblyDen
    /\ shaded.finalSize < 2 * AssemblyDen
    /\ shaded.finalPosition # VScale(PosDen, vertex.aPositionTarget)
    /\ shaded.vColor = VScale(WaveDen, vertex.aColor)

\* a step of the setTimeout callback
TimerStep ==
    /\ timer = "armed"
    /\ timer' = "fired"
    /\ \E random \in RandomValues : TimerFires(random)

\* a keydown step of any key: the only steps that count a key press
KeyStep == keyPresses' = keyPresses + 1

\* a keydown step of a key that reaches regenerateParticles
DensityKeyStep ==
    /\ KeyStep
    /\ \E key \in Keys :
          \E shiftKey \in ShiftStates(key) :
             \E random \in KeyDraws(key, shiftKey) :
                DensityKey(key, shiftKey) /\ KeyDown(key, shiftKey, random)

\* C11 as stated: once initParticles has built the dataset, no later event
\* changes any per-particle data (origin or target positions, colours,
\* sizes).
Cex_C11 == [][particles => dataset' = dataset]_vars

\* C11: once the dataset is built, target positions, target colours and
\* target sizes never change, and scroll and animation-frame events change
\* no per-particle data; origin positions, grid colours and origin sizes are
\* rewritten only by regenerateParticles, reached from the startup timer,
\* the Shift+Arrow / Shift+Page keys and the R key; every change lays the
\* particles out on a grid of ceil(sqrt(count)) columns with the current
\* density, and the startup timer always does so.
Thm_C11 ==
    [][particles =>
        /\ dataset'.aPositionTarget = dataset.aPositionTarget
        /\ dataset'.aColor = dataset.aColor
        /\ dataset'.aTargetSize = dataset.aTargetSize
        /\ (dataset' # dataset) => (TimerStep \/ DensityKeyStep)
        /\ (dataset' # dataset) =>
             \A i \in Held(attributes["position"]) :
                /\ dataset'.position[i] =
                      GridPosition(i, GridSize(attributes["position"]), config')
                /\ (variant = "main") =>
                      /\ dataset'.aGridColor[i] =
                            GridColor(i, GridSize(attributes["position"]),
                                      config')
                      /\ dataset'.aSize[i].normalizedZ =
                            dataset'.aGridColor[i].normalizedZ
        /\ (timer = "armed" /\ timer' = "fired") =>
             dataset'.position =
                [i \in Held(attributes["position"]) |->
                    GridPosition(i, GridSize(attributes["position"]), config')]]_vars

\* C11 witness: the startup timer has regenerated the loaded dataset:
\* particle 46 left its initial grid position while its target is unchanged
Wit_C11 ==
    /\ particles
    /\ timer = "fired"
    /\ keyPresses = 0
    /\ dataset.position[46] # grid.positions[46]
    /\ dataset.aPositionTarget[46] = [vertex |-> 46]

\* the animation state named by C12
AnimationState == <<uProgress, blending, depthWrite, rotation, uTime>>

\* C12 as stated: progress, blend mode, depthWrite, rotation and elapsed
\* time are mutated only by the per-frame callback; no other callback
\* (scroll, keydown, timer) writes any of them.
Cex_C12 ==
    [][(particles /\ AnimationState' # AnimationState) =>
          \E deltaTime \in DeltaTimes : Animate(deltaTime)]_vars

\* C14: no handler dereferences particles while it is null; while particles
\* is null the model data, the geometry and the material do not exist and
\* nothing was read from the model, the animation state is untouched, and
\* the frame callback can always run; the model data is first set and read
\* by the load callback.
Thm_C14 ==
    /\ thrown = FALSE
    /\ (~particles) =>
          /\ xShape = 0 - 1
          /\ reads = NoReads
          /\ dataset = NoDataset
          /\ uniforms = NoUniforms
          /\ attributes = [a \in AllAttributes |-> 0 - 1]
          /\ uProgress = 0 /\ uTime = 0 /\ blending = "none"
          /\ rotation = ZeroRotation
          /\ ENABLED AnimatePending

\* C14 witness: particles still null after a scroll event, the startup timer
\* and a Shift+PageUp key, which called regenerateParticles
Wit_C14 ==
    /\ ~particles
    /\ scrollY # 0
    /\ timer = "fired"
    /\ keyPresses = 1
    /\ config.waveZOffset = 190

\* C22: after a scroll event handled with particles loaded (main.js,
\* part_002), whatever happened before: progress > 53% gives Normal
\* blending, progress <= 47% gives Additive blending, progress > 51.5% gives
\* depthWrite = true and progress <= 48.5% gives depthWrite = false.
Thm_C22 ==
    (particles /\ handledSinceLoad /\ HasBlendSwitch(variant)) =>
        LET p == Progress(scrollY)
        IN  /\ (p > Pct(53)) => blending = "Normal"
            /\ (p <= Pct(47)) => blending = "Additive"
            /\ (2 * p > Pct(103)) => depthWrite = TRUE
            /\ (2 * p <= Pct(97)) => depthWrite = FALSE
            /\ (p <= Pct(35)) => (blending = "Additive" /\ ~depthWrite)
            /\ (p >= Pct(65)) => (blending = "Normal" /\ depthWrite)

\* C22 witness: at 52% the depth write is decided (true) while the blend
\* mode still depends on the history (here Additive)
Wit_C22 ==
    /\ particles /\ handledSinceLoad /\ HasBlendSwitch(variant)
    /\ Progress(scrollY) = Pct(52)
    /\ blending = "Additive"
    /\ depthWrite = TRUE

\* C29: 48% and 52% progress are blendProgress 13/30 and 17/30; a handled
\* scroll event that goes from one of them to the other keeps the blend mode
\* and flips depthWrite, while an event that goes from a progress in
\* (48.5%, 51.5%] to another one in that band keeps depthWrite.
Thm_C29 ==
    /\ [](BlendProgress(Pct(48)) * 30 = 13 * BlendDen
          /\ BlendProgress(Pct(52)) * 30 = 17 * BlendDen)
    /\ [][(HandledSwitchScroll /\ handledSinceLoad) =>
            LET p == Progress(scrollY)
                q == Progress(scrollY')
            IN  /\ ({p, q} = {Pct(48), Pct(52)}) =>
                      (blending' = blending /\ depthWrite' = ~depthWrite)
                /\ (/\ 2 * p > Pct(97) /\ 2 * p <= Pct(103)
                    /\ 2 * q > Pct(97) /\ 2 * q <= Pct(103)) =>
                      depthWrite' = depthWrite]_vars

\* C29 witness: Normal blending kept at 48% with depthWrite switched off
Wit_C29 ==
    /\ particles /\ handledSinceLoad /\ HasBlendSwitch(variant)
    /\ Progress(scrollY) = Pct(48)
    /\ blending = "Normal"
    /\ depthWrite = FALSE

\* a scroll step at one of the positions tried next to the keyboard controls
KeyScrollStep == \E y \in KeyScrollPositions : Scroll(y)

\* C21: uTime never decreases; it changes only in an animation frame with
\* particles loaded, by deltaTime * waveSpeed in main.js and by 0.01 in the
\* other variants, whatever the progress; scroll events, keydown events and
\* the startup timer leave it as it was.
Thm_C21 ==
    [][/\ uTime' >= uTime
       /\ (uTime' # uTime) =>
             /\ particles
             /\ \E deltaTime \in DeltaTimes :
                   /\ Animate(deltaTime)
                   /\ uTime' = uTime + (IF variant = "main"
                                        THEN deltaTime * waveSpeed ELSE 1)
       /\ (KeyScrollStep \/ KeyStep \/ timer' # timer) => uTime' = uTime]_vars

\* C21 witness: in part_002 the clock has advanced and is kept after a
\* scroll event, the startup timer and a key press with particles loaded
Wit_C21 ==
    /\ variant = "part_002"
    /\ particles
    /\ uTime > 0
    /\ handledSinceLoad
    /\ timer = "fired"
    /\ keyPresses = 1
    /\ dataset.position[46] # grid.positions[46]

\* C24: a keydown event or the startup timer with particles loaded (the
\* callers of updateWaveDensity / regenerateParticles) leaves uProgress,
\* uBlendTransition, uTime, blending, depthWrite, particles.rotation, the
\* particle counts and aPositionTarget, aTargetSize, aColor unchanged; only
\* position and, in main.js, aGridColor and aSize may be rewritten, and the
\* startup timer does rewrite position.
Thm_C24 ==
    [][(particles /\ (KeyStep \/ (timer = "armed" /\ timer' = "fired"))) =>
        /\ uProgress' = uProgress
        /\ uBlendTransition' = uBlendTransition
        /\ uTime' = uTime
        /\ blending' = blending
        /\ depthWrite' = depthWrite
        /\ rotation' = rotation
        /\ attributes' = attributes
        /\ DOMAIN dataset'.position = Held(attributes["position"])
        /\ dataset'.aPositionTarget = dataset.aPositionTarget
        /\ dataset'.aTargetSize = dataset.aTargetSize
        /\ dataset'.aColor = dataset.aColor
        /\ (variant = "part_002") =>
              (dataset'.aSize = dataset.aSize
               /\ dataset'.aGridColor = dataset.aGridColor)
        /\ (timer' # timer) =>
              \A i \in Held(attributes["position"]) :
                 dataset'.position[i] =
                    GridPosition(i, GridSize(attributes["position"]),
                                 config')]_vars

\* C24 witness: in part_002, Normal blending with depthWrite at 54% kept
\* through a Shift+ArrowUp key that regenerated the positions
Wit_C24 ==
    /\ variant = "part_002"
    /\ particles
    /\ uProgress = Pct(54)
    /\ blending = "Normal"
    /\ depthWrite
    /\ keyPresses = 1
    /\ config.waveDepthFactor = 610
    /\ dataset.position[46].z = GridZ(46, 45, 610)

\* C27: whenever particles exist in main.js or part_002, the uniforms
\* uWaveOffsetX/Y/Z and uWaveRotationX/Y/Z and (main.js) the three darkness
\* uniforms equal the global variables of the same name, for every
\* interleaving of load callback, startup timer and keydown events.
Thm_C27 ==
    (particles /\ HasControls(variant)) =>
        /\ uniforms.uWaveOffsetX = config.waveOffsetX
        /\ uniforms.uWaveOffsetY = config.waveOffsetY
        /\ uniforms.uWaveOffsetZ = config.waveOffsetZ
        /\ uniforms.uWaveRotationX = config.waveRotationX
        /\ uniforms.uWaveRotationY = config.waveRotationY
        /\ uniforms.uWaveRotationZ = config.waveRotationZ
        /\ (variant = "main") =>
              /\ uniforms.uDistanceDarknessFactor = config.distanceDarknessFactor
              /\ uniforms.uHeightDarknessFactor = config.heightDarknessFactor
              /\ uniforms.uDistantHeightBoost = config.distantHeightBoost

\* C27 witness: particles loaded, the timer not yet fired, and the Z offset
\* moved by one E key press, in the global and in the uniform
Wit_C27 ==
    /\ particles /\ HasControls(variant)
    /\ timer = "waiting"
    /\ keyPresses = 1
    /\ config.waveOffsetZ = InitialConfig(variant).waveOffsetZ + offsetStep
    /\ uniforms.uWaveOffsetZ = config.waveOffsetZ

\* a keydown step of main.js with the D key
DKeyStep == variant = "main" /\ KeyStep /\ KeyDown("d", FALSE, 0)

\* the D key's effect: waveOffsetX and its uniform go up by 0.05
XOffsetStepped ==
    /\ config'.waveOffsetX = config.waveOffsetX + offsetStep
    /\ particles => uniforms'.uWaveOffsetX = uniforms.uWaveOffsetX + offsetStep

\* C30 as stated: in main.js a D keydown raises waveOffsetX (and its
\* uniform) by 0.05 and toggles debugMode; no keydown toggles debugMode and
\* leaves the wave offsets unchanged; no keydown increases the X offset and
\* leaves debugMode unchanged.
Cex_C30 ==
    [][(variant = "main" /\ KeyStep) =>
        /\ DKeyStep =>
              (XOffsetStepped /\ config'.debugMode # config.debugMode)
        /\ (config'.debugMode # config.debugMode) =>
              config'.waveOffsetX # config.waveOffsetX
        /\ (config'.waveOffsetX > config.waveOffsetX) =>
              config'.debugMode # config.debugMode]_vars

\* C30: in main.js a D keydown raises waveOffsetX (and its uniform) by 0.05
\* and toggles debugMode; every keydown that toggles debugMode raises
\* waveOffsetX by 0.05; a keydown that increases the X offset and leaves
\* debugMode unchanged is the Z key, which sets the three offsets and the
\* three rotations to 0.
Thm_C30 ==
    [][(variant = "main" /\ KeyStep) =>
        /\ DKeyStep =>
              (XOffsetStepped /\ config'.debugMode # config.debugMode)
        /\ (config'.debugMode # config.debugMode) => XOffsetStepped
        /\ (/\ config'.waveOffsetX > config.waveOffsetX
            /\ config'.debugMode = config.debugMode) =>
              /\ KeyDown("z", FALSE, 0)
              /\ config'.waveOffsetX = 0
              /\ config'.waveOffsetY = 0
              /\ config'.waveOffsetZ = 0
              /\ config'.waveRotationX = 0
              /\ config'.waveRotationY = 0
              /\ config'.waveRotationZ = 0]_vars

\* C30 witness: after one D key with particles loaded, debugMode is on and
\* the X offset and its uniform are 0.05 above the master value
Wit_C30 ==
    /\ variant = "main"
    /\ particles
    /\ keyPresses = 1
    /\ config.debugMode
    /\ config.waveOffsetX = InitialConfig("main").waveOffsetX + offsetStep
    /\ uniforms.uWaveOffsetX = config.waveOffsetX

\* a keydown step with the R key
RKeyStep ==
    /\ KeyStep
    /\ \E random \in RandomValues :
          KeyDownWithin(MaxResetPresses, "r", FALSE, random)

\* C23 as stated: after any sequence of offset, density and Z keys, the R key
\* leaves the wave offsets, wave rotations and wave density at the master
\* values of the top of the file, in the globals and in the uniforms.
Cex_C23 ==
    [][RKeyStep =>
        LET master == InitialConfig(variant)
        IN  /\ config'.waveOffsetX = master.waveOffsetX
            /\ config'.waveOffsetY = master.waveOffsetY
            /\ config'.waveOffsetZ = master.waveOffsetZ
            /\ config'.waveRotationX = master.waveRotationX
            /\ config'.waveRotationY = master.waveRotationY
            /\ config'.waveRotationZ = master.waveRotationZ
            /\ config'.waveWidthFactor = master.waveWidthFactor
            /\ config'.waveDepthFactor = master.waveDepthFactor
            /\ config'.waveZOffset = master.waveZOffset
            /\ particles =>
                  /\ uniforms'.uWaveOffsetX = master.waveOffsetX
                  /\ uniforms'.uWaveOffsetY = master.waveOffsetY
                  /\ uniforms'.uWaveOffsetZ = master.waveOffsetZ
                  /\ uniforms'.uWaveRotationX = master.waveRotationX
                  /\ uniforms'.uWaveRotationY = master.waveRotationY
                  /\ uniforms'.uWaveRotationZ = master.waveRotationZ]_vars

\* C26 as stated: when the callback scheduled 100 ms after DOMContentLoaded
\* runs, particles is non-null, for every ordering of the timer callback and
\* the load callback.
Cex_C26 == [][(timer = "armed" /\ timer' = "fired") => particles]_vars

\* C28 as stated: regenerateParticles called with the density of the initial
\* loop writes for every particle the origin position of the initial loop,
\* also when the dataset was truncated to fewer particles than
\* particlesCount.
Cex_C28 ==
    [][(/\ particles
        /\ timer = "armed" /\ timer' = "fired"
        /\ config.waveWidthFactor = InitialConfig(variant).waveWidthFactor
        /\ config.waveDepthFactor = InitialConfig(variant).waveDepthFactor
        /\ config.waveZOffset = InitialConfig(variant).waveZOffset) =>
          \A i \in Held(attributes["position"]) :
             dataset'.position[i] = grid.positions[i]]_vars

\* C25 as stated: after every scroll event handled with particles loaded and
\* progress at or above 60%, the rotation X and Y rendered in the debug
\* display are those of the particles.rotation that this same scroll event
\* produced.
Cex_C25 ==
    [][(/\ particles
        /\ debugDisplay.followed
        /\ Scroll(scrollY')
        /\ Progress(scrollY') >= Pct(60)) =>
          /\ debugDisplay'.rotX = ToFixed1(rotation'.x, XDen)
          /\ debugDisplay'.rotY = ToFixed1(rotation'.y, YDen(variant))]_vars

====
